---- MODULE Spec2Model ----
(***************************************************************************)
(* A model of the replication engine of bevy_bundlication: the identifier *)
(* map, the receive path (apply_changes, handle_despawns), the authority   *)
(* rules, the send phase (send_despawns, track_authority, iterate_world)   *)
(* and the per-recipient buffers (take, send_filtered, fragment, drop).    *)
(***************************************************************************)
EXTENDS Integers, Sequences, FiniteSets, TLC

\* ------------------------------------------------------------------ bounds

\* Largest packet tick a received packet carries.
MaxTick == 3
\* Number of entity handles the object store hands out.
MaxEntity == 2
\* Most messages written between two drains of the buffers.
MaxMsgs == 3
\* Most runs of iterate_world in a behaviour.
MaxCycles == 2
MaxTypes == 4
BulkCount == 252

\* ------------------------------------------------------------- value spaces

\* Option<T>: None is the empty tuple, Some(x) is <<x>>.
None == << >>
Some(x) == <<x>>
IsSome(o) == o # << >>
Unwrap(o) == o[1]
\* a default tick of one for a group without a recorded tick
UnwrapOrDefaultTick_One(o) == IF o = << >> THEN 1 ELSE o[1]

\* Option<Tick>::unwrap_or_default(): Tick::default() is Tick(0).
UnwrapOrDefaultTick(o) == IF o = << >> THEN 0 ELSE o[1]

Ticks == 0..MaxTick
Entities == 1..MaxEntity
ClientIds == {1, 2}
Values == {1, 2}
\* The registered bundles (attribute groups) of the receive direction.
Bundles == {"A", "B"}
\* Identifiers (entity_type, id) known to the application.
Identifiers == {<<1, 1>>}

\* enum Authority { Server, Free, Client(u32) }
AuthorityServer == <<"Server">>
AuthorityFree == <<"Free">>
AuthorityClient(c) == <<"Client", c>>
Authorities == {AuthorityServer, AuthorityFree} \cup {AuthorityClient(c) : c \in ClientIds}

\* enum Identity { Server, Client(u32) }
IdentityServer == <<"Server">>
IdentityClient(c) == <<"Client", c>>

\* can_claim that lets a client take over what another client holds
CanClaim_AnyClient(auth, client_id) ==
    CASE auth[1] = "Server" -> FALSE
      [] auth[1] = "Free" -> TRUE
      [] auth[1] = "Client" -> TRUE

\* can_claim that lets a client claim what the server holds
CanClaim_ServerClaimable(auth, client_id) ==
    CASE auth[1] = "Server" -> TRUE
      [] auth[1] = "Free" -> TRUE
      [] auth[1] = "Client" -> auth[2] = client_id

\* Authority::can_claim
CanClaim(auth, client_id) ==
    CASE auth[1] = "Server" -> FALSE
      [] auth[1] = "Free" -> TRUE
      [] auth[1] = "Client" -> auth[2] = client_id

\* Option<Authority>::unwrap_or_default(): Authority::default() is Server.
UnwrapOrDefaultAuthority(o) == IF o = << >> THEN AuthorityServer ELSE o[1]

\* enum EntityStatus { Alive(Entity), Despawned(Tick) }; an identifier with
\* no entry in from_id has status None.
Alive(e) == <<"Alive", e>>
Despawned(t) == <<"Despawned", t>>
StatusKind(status) == IF status = << >> THEN "None" ELSE status[1]

\* ---------------------------------------------------------------- variables

VARIABLES
    our_ident,  \* the Identity resource of this process
    world,      \* the object store: live entity handle -> its components
    from_id,    \* IdentifierMap.from_id: Identifier -> status or None
    to_id,      \* IdentifierMap.to_id: entity handle -> Identifier
    panicked,   \* a handler panicked (World::entity on a missing entity)
    net_events, \* Events<NetworkEvent<E>>: the events delivered to the application
    net,        \* the peers of this process and the packets between them, where modelled
    last,       \* history: the last operation, its input and the state before it
    held,       \* HeldAuthority: the entities this client may write to
    authority_changed,   \* entities matching Changed<Authority> for track_authority
    removed_authority,   \* RemovedComponents<Authority> not yet read by track_authority
    removed_identifier,  \* RemovedComponents<Identifier> not yet read by send_despawns
    tracked,    \* history: entity -> its Authority when track_authority last ran
    connections, \* Connections: Identity -> [new, replicate]
    phase,      \* the position in the schedule of a frame
    change_tick, \* World::change_tick
    last_run,   \* the change tick at which iterate_world last ran
    changed,    \* entity -> bundle -> change tick of the bundle's component
    cycles,     \* runs of iterate_world so far
    Tick,       \* the Tick resource
    current,    \* Buffers.current: BufferKey -> bytes
    filled,     \* Buffers.filled: the packets fragment() cut off
    taken,      \* the TakenBuffers handle that is alive, or None
    pending,    \* a message was written to the handle and fragment() not yet called
    written,    \* messages written since the buffers were drained
    sent,       \* the packets drain yielded, until the transport takes them
    registry,   \* RegistryDir: the bundles and events registered, by TypeId
    handlers    \* Handlers: packet id -> handler, None before generate_ids ran

recvVars == <<our_ident, world, from_id, to_id, panicked, net_events, net>>
sendVars == <<held, authority_changed, removed_authority, removed_identifier,
              tracked, connections, phase, change_tick, last_run, changed, cycles>>
bufVars == <<Tick, current, filled, taken, pending, written, sent>>
regVars == <<registry, handlers>>
vars == <<recvVars, last, sendVars, bufVars, regVars>>

\* The components of an entity that the engine reads or writes.
Components(identifier, authority, value, last_bundle, last_entity) ==
    [identifier |-> identifier, authority |-> authority, value |-> value,
     last_bundle |-> last_bundle, last_entity |-> last_entity, parent |-> None]

NoValues == [b \in Bundles |-> None]

\* A specification of one process has no peers.
NoNetwork == << >>

\* The engine state the receive path works on.
State(w, f, t, p) == [world |-> w, from_id |-> f, to_id |-> t, panicked |-> p]
Current == State(world, from_id, to_id, panicked)

\* ------------------------------------------------------------ identifier map

\* a lookup that also rejects the tick of the tombstone itself
MapGet_Inclusive(f, id, tick) ==
    LET status == IF id \in DOMAIN f THEN f[id] ELSE None IN
    IF StatusKind(status) = "Despawned" /\ status[2] <= tick
      THEN [ok |-> FALSE, err |-> "Despawned", status |-> None]
    ELSE IF status # None
      THEN [ok |-> TRUE, err |-> "", status |-> status]
      ELSE [ok |-> FALSE, err |-> "NonExistent", status |-> None]

\* IdentifierMap::get: the status, or an error
MapGet(f, id, tick) ==
    LET status == IF id \in DOMAIN f THEN f[id] ELSE None IN
    IF StatusKind(status) = "Despawned" /\ status[2] < tick
      THEN [ok |-> FALSE, err |-> "Despawned", status |-> None]
    ELSE IF status # None
      THEN [ok |-> TRUE, err |-> "", status |-> status]
      ELSE [ok |-> FALSE, err |-> "NonExistent", status |-> None]

\* IdentifierMap::insert
MapInsert(st, id, entity) ==
    [st EXCEPT !.from_id = (id :> Alive(entity)) @@ st.from_id,
               !.to_id = (entity :> id) @@ st.to_id]

\* removal of one key of a function
RemoveKey(f, k) == [x \in (DOMAIN f) \ {k} |-> f[x]]

\* despawn that forgets to drop the reverse mapping
MapDespawn_KeepsReverse(st, id, entity, tick) ==
    [st EXCEPT !.from_id = [st.from_id EXCEPT ![id] = Despawned(tick)]]

\* IdentifierMap::despawn
MapDespawn(st, id, entity, tick) ==
    [st EXCEPT !.from_id = [st.from_id EXCEPT ![id] = Despawned(tick)],
               !.to_id = RemoveKey(st.to_id, entity)]

\* IdentifierMap::n_alive, n_total
NAlive(st) == Cardinality(DOMAIN st.to_id)
NTotal(st) == Cardinality({id \in DOMAIN st.from_id : st.from_id[id] # None})

\* An entity handle no live entity and no map entry refers to.  The store
\* never hands out a handle twice; a handle nothing refers to any more is
\* indistinguishable from a new one.
UsedEntities(st) == (DOMAIN st.world) \cup (DOMAIN st.to_id)
    \cup {st.from_id[id][2] : id \in {i \in DOMAIN st.from_id :
             StatusKind(st.from_id[i]) = "Alive"}}
CanSpawn(st) == Entities \ UsedEntities(st) # {}
NewEntity(st) == CHOOSE e \in Entities \ UsedEntities(st) :
                    \A o \in Entities \ UsedEntities(st) : e <= o

\* ------------------------------------------------------------- receive path

\* a stale check that lets every tick through
IsStale_Never(bundle_tick, tick) == FALSE

\* a stale check that lets a repeated tick through
IsStale_Strict(bundle_tick, tick) == bundle_tick > tick

\* apply_changes: "if bundle_tick >= tick { return; }"
IsStale(bundle_tick, tick) == bundle_tick >= tick

\* an age check that also refuses a despawn of the tick of the last update
DespawnTooOld_Inclusive(tick, entity_tick) == tick <= entity_tick

\* handle_despawns: "if tick < LastUpdate<()> { return; }"
DespawnTooOld(tick, entity_tick) == tick < entity_tick

\* DespawnRecursive: the entity and its descendants leave the world
RECURSIVE Descendants(_, _)
Descendants(w, es) ==
    LET children == {c \in DOMAIN w : w[c].parent # None /\ Unwrap(w[c].parent) \in es}
    IN  IF children \subseteq es THEN es ELSE Descendants(w, es \cup children)
DespawnRecursive(w, entity) ==
    LET gone == Descendants(w, {entity}) IN
    [x \in (DOMAIN w) \ gone |-> w[x]]

\* apply_changes whose authority check guards only a group that was written
\* before: a group nobody wrote yet is open to every client
ApplyChanges_AuthorityPerGroup(st, ident, tick, identifier, b, val) ==
    LET got == MapGet(st.from_id, identifier, tick) IN
    IF got.ok /\ got.status[1] = "Despawned" THEN st
    ELSE
    LET entity == IF got.ok THEN Some(got.status[2]) ELSE None IN
    IF IsSome(entity) /\ Unwrap(entity) \in DOMAIN st.world
    THEN
        LET e == Unwrap(entity)
            c == st.world[e]
            bundle_tick == UnwrapOrDefaultTick(c.last_bundle[b])
            auth == UnwrapOrDefaultAuthority(c.authority)
            entity_tick == UnwrapOrDefaultTick(c.last_entity)
            isClient == ident[1] = "Client"
        IN
        IF IsStale(bundle_tick, tick) THEN st
        ELSE IF isClient /\ ~CanClaim(auth, ident[2]) /\ c.last_bundle[b] # None THEN st
        ELSE [st EXCEPT !.world[e] =
                [c EXCEPT
                   !.authority = IF isClient THEN Some(AuthorityClient(ident[2])) ELSE @,
                   !.last_bundle[b] = Some(tick),
                   !.last_entity = IF tick > entity_tick THEN Some(tick) ELSE @,
                   !.value[b] = Some(val)]]
    ELSE IF ident = IdentityServer
    THEN
        LET e == NewEntity(st)
            spawned == Components(Some(identifier), None,
                                  [NoValues EXCEPT ![b] = Some(val)],
                                  [NoValues EXCEPT ![b] = Some(tick)],
                                  Some(tick))
        IN MapInsert([st EXCEPT !.world = (e :> spawned) @@ st.world], identifier, e)
    ELSE st

\* apply_changes that leaves LastUpdate<()> of an existing entity alone
ApplyChanges_KeepsEntityTick(st, ident, tick, identifier, b, val) ==
    LET got == MapGet(st.from_id, identifier, tick) IN
    IF got.ok /\ got.status[1] = "Despawned" THEN st
    ELSE
    LET entity == IF got.ok THEN Some(got.status[2]) ELSE None IN
    IF IsSome(entity) /\ Unwrap(entity) \in DOMAIN st.world
    THEN
        LET e == Unwrap(entity)
            c == st.world[e]
            bundle_tick == UnwrapOrDefaultTick(c.last_bundle[b])
            auth == UnwrapOrDefaultAuthority(c.authority)
            isClient == ident[1] = "Client"
        IN
        IF IsStale(bundle_tick, tick) THEN st
        ELSE IF isClient /\ ~CanClaim(auth, ident[2]) THEN st
        ELSE [st EXCEPT !.world[e] =
                [c EXCEPT
                   !.authority = IF isClient THEN Some(AuthorityClient(ident[2])) ELSE @,
                   !.last_bundle[b] = Some(tick),
                   !.value[b] = Some(val)]]
    ELSE IF ident = IdentityServer
    THEN
        LET e == NewEntity(st)
            spawned == Components(Some(identifier), None,
                                  [NoValues EXCEPT ![b] = Some(val)],
                                  [NoValues EXCEPT ![b] = Some(tick)],
                                  Some(tick))
        IN MapInsert([st EXCEPT !.world = (e :> spawned) @@ st.world], identifier, e)
    ELSE st

\* The generated apply_changes of bundle b: one group message
\* (identifier, value) of a packet with the given tick, sent by ident.
ApplyChanges(st, ident, tick, identifier, b, val) ==
    LET got == MapGet(st.from_id, identifier, tick) IN
    IF got.ok /\ got.status[1] = "Despawned" THEN st
    ELSE
    LET entity == IF got.ok THEN Some(got.status[2]) ELSE None IN
    IF IsSome(entity) /\ Unwrap(entity) \in DOMAIN st.world
    THEN
        LET e == Unwrap(entity)
            c == st.world[e]
            bundle_tick == UnwrapOrDefaultTick(c.last_bundle[b])
            auth == UnwrapOrDefaultAuthority(c.authority)
            entity_tick == UnwrapOrDefaultTick(c.last_entity)
            isClient == ident[1] = "Client"
        IN
        IF IsStale(bundle_tick, tick) THEN st
        ELSE IF isClient /\ ~CanClaim(auth, ident[2]) THEN st
        ELSE [st EXCEPT !.world[e] =
                [c EXCEPT
                   !.authority = IF isClient THEN Some(AuthorityClient(ident[2])) ELSE @,
                   !.last_bundle[b] = Some(tick),
                   !.last_entity = IF tick > entity_tick THEN Some(tick) ELSE @,
                   !.value[b] = Some(val)]]
    ELSE IF ident = IdentityServer
    THEN
        \* world.spawn((identifier, LastUpdate<Self>, LastUpdate<()>, components))
        LET e == NewEntity(st)
            spawned == Components(Some(identifier), None,
                                  [NoValues EXCEPT ![b] = Some(val)],
                                  [NoValues EXCEPT ![b] = Some(tick)],
                                  Some(tick))
        IN MapInsert([st EXCEPT !.world = (e :> spawned) @@ st.world], identifier, e)
    ELSE st

\* handle_despawns: one despawn message (identifier) of a packet with the
\* given tick, sent by ident.
HandleDespawns(st, ident, tick, identifier) ==
    LET got == MapGet(st.from_id, identifier, tick) IN
    IF ~(got.ok /\ got.status[1] = "Alive") THEN st
    ELSE
    LET entity == got.status[2] IN
    \* World::entity panics when the entity does not exist
    IF entity \notin DOMAIN st.world THEN [st EXCEPT !.panicked = TRUE]
    ELSE
    LET c == st.world[entity] IN
    IF ident[1] = "Client"
       /\ ~CanClaim(UnwrapOrDefaultAuthority(c.authority), ident[2])
    THEN st
    ELSE IF DespawnTooOld(tick, UnwrapOrDefaultTick(c.last_entity)) THEN st
    ELSE MapDespawn([st EXCEPT !.world = DespawnRecursive(st.world, entity)],
                    identifier, entity, tick)

\* WorldSpawnIdentifierExt::spawn_with_id with an optional Authority component
SpawnWithId(st, identifier, authority) ==
    LET e == NewEntity(st) IN
    MapInsert([st EXCEPT !.world =
                 (e :> Components(Some(identifier), authority, NoValues, NoValues, None))
                 @@ st.world],
              identifier, e)

\* ------------------------------------------------------------------ actions

\* The peers this process receives packets from: a client receives from the
\* server, the server receives from its clients (NetImpl::receive_messages).
Senders == IF our_ident = IdentityServer
             THEN {IdentityClient(c) : c \in ClientIds}
             ELSE {IdentityServer}

\* The record kept in last.
Op(kind, ident, tick, identifier, b, val, before) ==
    [kind |-> kind, ident |-> ident, tick |-> tick, identifier |-> identifier,
     b |-> b, val |-> val, before |-> before]

SetState(st) ==
    /\ world' = st.world
    /\ from_id' = st.from_id
    /\ to_id' = st.to_id
    /\ panicked' = st.panicked

\* The application spawns an identified object.
LocalSpawn ==
    /\ ~panicked
    /\ \E identifier \in Identifiers, authority \in {None} \cup {Some(a) : a \in Authorities} :
         /\ StatusKind(from_id[identifier]) \in {"None", "Despawned"}
         /\ CanSpawn(Current)
         /\ SetState(SpawnWithId(Current, identifier, authority))
         /\ last' = Op("spawn", our_ident, 0, identifier, "", 0, Current)
    /\ UNCHANGED <<regVars, our_ident, net_events, net, sendVars, bufVars>>

\* Handlers::process on a packet holding one group message.
ReceiveUpdate ==
    /\ ~panicked
    /\ \E ident \in Senders, t \in Ticks, identifier \in Identifiers,
          b \in Bundles, val \in Values :
         /\ ident = IdentityServer => CanSpawn(Current)
         /\ SetState(ApplyChanges(Current, ident, t, identifier, b, val))
         /\ last' = Op("update", ident, t, identifier, b, val, Current)
    /\ UNCHANGED <<regVars, our_ident, net_events, net, sendVars, bufVars>>

\* Handlers::process on a packet holding one despawn message.
ReceiveDespawn ==
    /\ ~panicked
    /\ \E ident \in Senders, t \in Ticks, identifier \in Identifiers :
         /\ SetState(HandleDespawns(Current, ident, t, identifier))
         /\ last' = Op("despawn", ident, t, identifier, "", 0, Current)
    /\ UNCHANGED <<regVars, our_ident, net_events, net, sendVars, bufVars>>

\* The resources of the send phase as NetworkingPlugin::build leaves them.
SendIdle ==
    /\ held = {}
    /\ authority_changed = {}
    /\ removed_authority = {}
    /\ removed_identifier = << >>
    /\ tracked = << >>
    /\ connections = << >>
    /\ phase = "update"
    /\ change_tick = 1
    /\ last_run = 0
    /\ changed = << >>
    /\ cycles = 0

\* Buffers::default(), no handle taken.
BuffersIdle ==
    /\ Tick = 0
    /\ current = << >>
    /\ filled = << >>
    /\ taken = None
    /\ pending = FALSE
    /\ written = 0
    /\ sent = None

\* A RegisteredBundle or RegisteredEvent: the type path (its rank among the
\* paths) and the packet id; handle_despawns and the handler of a type.
Registered(path, packet_id) == [path |-> path, packet_id |-> packet_id]
HandleDespawnsFn == <<"despawn">>
HandlerOf(kind, type) == <<kind, type>>

\* The registry and the handlers once the bundles A and B are registered and
\* generate_ids ran at startup.
RegIdle ==
    /\ registry = [bundles |-> ("A" :> Registered(1, 1)) @@ ("B" :> Registered(2, 2)),
                   events |-> << >>]
    /\ handlers = Some((0 :> HandleDespawnsFn) @@ (1 :> HandlerOf("bundle", "A"))
                       @@ (2 :> HandlerOf("bundle", "B")))

Init ==
    /\ our_ident \in {IdentityServer, IdentityClient(1)}
    /\ world = << >>
    /\ from_id = [id \in Identifiers |-> None]
    /\ to_id = << >>
    /\ panicked = FALSE
    /\ net_events = << >>
    /\ net = NoNetwork
    /\ last = Op("init", our_ident, 0, <<0, 0>>, "", 0,
                 State(<< >>, [id \in Identifiers |-> None], << >>, FALSE))
    /\ SendIdle
    /\ BuffersIdle
    /\ RegIdle

Next == LocalSpawn \/ ReceiveUpdate \/ ReceiveDespawn

Spec == Init /\ [][Next]_vars

\* ------------------------------------------------------- reading the state

\* The live entity an identifier stands for in st, if any.
HasObject(st, identifier) ==
    /\ StatusKind(st.from_id[identifier]) = "Alive"
    /\ st.from_id[identifier][2] \in DOMAIN st.world
ObjectOf(st, identifier) == st.world[st.from_id[identifier][2]]

GroupValue(st, identifier, b) ==
    IF HasObject(st, identifier) THEN ObjectOf(st, identifier).value[b] ELSE None
GroupTick(st, identifier, b) ==
    IF HasObject(st, identifier) THEN ObjectOf(st, identifier).last_bundle[b] ELSE None
EntityTick(st, identifier) ==
    IF HasObject(st, identifier) THEN ObjectOf(st, identifier).last_entity ELSE None
AuthorityOf(st, identifier) ==
    IF HasObject(st, identifier) THEN ObjectOf(st, identifier).authority ELSE None
TombstonedAtOrAfter(st, identifier, tick) ==
    /\ StatusKind(st.from_id[identifier]) = "Despawned"
    /\ st.from_id[identifier][2] >= tick

\* The group of the identifier holds value val applied at tick.
Holds(st, identifier, b, val, tick) ==
    /\ GroupValue(st, identifier, b) = Some(val)
    /\ GroupTick(st, identifier, b) = Some(tick)

LastIsUpdate == last.kind = "update"
LastIsDespawn == last.kind = "despawn"
LastFromServer == last.ident = IdentityServer
LastFromClient == last.ident[1] = "Client"

\* ------------------------------------------------------------------ claims

C1_Fresh(st, identifier, b, t2) ==
    /\ UnwrapOrDefaultTick(GroupTick(st, identifier, b)) < t2
    /\ ~TombstonedAtOrAfter(st, identifier, t2)

IsTombstoned(st, identifier) == StatusKind(st.from_id[identifier]) = "Despawned"

\* What C2 says of the state st left by a despawn at t_d and an update
\* (b, val) at t_u: tombstoned iff t_u <= t_d, alive and updated iff t_u > t_d.
C2_Outcome(st, identifier, b, val, t_d, t_u) ==
    /\ IsTombstoned(st, identifier) <=> t_u <= t_d
    /\ (HasObject(st, identifier) /\ Holds(st, identifier, b, val, t_u)) <=> t_u > t_d

C3_FirstClaimWins ==
    (LastIsUpdate /\ LastFromClient /\ HasObject(last.before, last.identifier)) =>
        LET auth == AuthorityOf(last.before, last.identifier)
            applied == Current # last.before
            newer == last.tick > UnwrapOrDefaultTick(
                        GroupTick(last.before, last.identifier, last.b))
        IN
        /\ (auth = Some(AuthorityFree) /\ applied) =>
               AuthorityOf(Current, last.identifier) = Some(AuthorityClient(last.ident[2]))
        /\ (auth = Some(AuthorityFree) /\ newer) => applied
        /\ \A p \in ClientIds :
              auth = Some(AuthorityClient(p)) =>
                /\ last.ident[2] # p => ~applied
                /\ (last.ident[2] = p /\ newer) =>
                      /\ Holds(Current, last.identifier, last.b, last.val, last.tick)
                      /\ AuthorityOf(Current, last.identifier) = auth
                /\ AuthorityOf(Current, last.identifier) = auth

\* C3 witness: client 2 sent an update with a newer tick for an object that
\* client 1 had claimed from Free, and it was rejected.
C3_Witness ==
    /\ LastIsUpdate /\ last.ident = IdentityClient(2)
    /\ AuthorityOf(last.before, last.identifier) = Some(AuthorityClient(1))
    /\ \E b \in Bundles : GroupTick(last.before, last.identifier, b) = Some(1)
    /\ last.tick = 3
    /\ Current = last.before

\* C4: an update from client P with tick t for an existing object and group
\* is applied iff t is above the group's last-applied tick (0 when none is
\* recorded) and the authority is Free or Client(P); when applied the
\* authority is Client(P), the group's tick is t and the group holds the
\* value; otherwise nothing changes.
C4_ClientUpdateApplied ==
    (LastIsUpdate /\ LastFromClient /\ HasObject(last.before, last.identifier)) =>
        LET auth == AuthorityOf(last.before, last.identifier)
            p == last.ident[2]
            applied == Current # last.before
            allowed == /\ last.tick > UnwrapOrDefaultTick(
                               GroupTick(last.before, last.identifier, last.b))
                       /\ auth \in {Some(AuthorityFree), Some(AuthorityClient(p))}
        IN
        /\ applied <=> allowed
        /\ applied =>
              /\ AuthorityOf(Current, last.identifier) = Some(AuthorityClient(p))
              /\ Holds(Current, last.identifier, last.b, last.val, last.tick)

\* C4 witness: an update of client 1 at tick 2 was applied to a Free object
\* whose group was last applied at tick 1.
C4_Witness ==
    /\ LastIsUpdate /\ last.ident = IdentityClient(1) /\ last.tick = 2
    /\ HasObject(last.before, last.identifier)
    /\ GroupTick(last.before, last.identifier, last.b) = Some(1)
    /\ Holds(Current, last.identifier, last.b, last.val, 2)
    /\ AuthorityOf(Current, last.identifier) = Some(AuthorityClient(1))

C6_DespawnApplied ==
    LastIsDespawn =>
        LET id == last.identifier
            auth == AuthorityOf(last.before, id)
            cond == /\ HasObject(last.before, id)
                    /\ \/ LastFromServer
                       \/ auth = Some(AuthorityFree)
                       \/ auth = Some(AuthorityClient(last.ident[2]))
                    /\ last.tick >= UnwrapOrDefaultTick(EntityTick(last.before, id))
        IN
        /\ cond =>
              /\ from_id[id] = Despawned(last.tick)
              /\ last.before.from_id[id][2] \notin DOMAIN world
              /\ NTotal(Current) = NTotal(last.before)
              /\ NAlive(Current) = NAlive(last.before) - 1
        /\ ~cond => Current = last.before

\* C6 witness: a despawn of client 1 at tick 1 destroyed an object it holds
\* authority over, last updated at tick 1.
C6_Witness ==
    /\ LastIsDespawn /\ last.ident = IdentityClient(1) /\ last.tick = 1
    /\ AuthorityOf(last.before, last.identifier) = Some(AuthorityClient(1))
    /\ EntityTick(last.before, last.identifier) = Some(1)
    /\ from_id[last.identifier] = Despawned(1)
    /\ NTotal(Current) = 1 /\ NAlive(Current) = 0


\* ================================================================ buffers

\* const THRESHOLD, const CAP
THRESHOLD == 1100
CAP == 1198

\* The channel bundles are sent on ("0" in iterate_world) and DespawnChannel
\* as the plugins of the tests configure it.
EntityChannel == 0
DespawnChannel == 0

\* enum SendRule { All, Except(u32), Only(u32) }
SendRuleAll == <<"All">>
SendRuleExcept(c) == <<"Except", c>>
SendRuleOnly(c) == <<"Only", c>>

\* SendRule::includes
Includes(rule, ident) ==
    CASE rule[1] = "All" -> TRUE
      [] rule[1] = "Except" -> ident # IdentityClient(rule[2])
      [] rule[1] = "Only" -> ident = IdentityClient(rule[2])

\* struct BufferKey { destination, channel }
BufferKey(destination, channel) == <<destination, channel>>

\* Bytes are kept as runs: the bytes lo..hi-1 of one write of size bytes
\* that the tag describes.  A run with lo = 0 and hi = size is a whole write.
Part(tag, n) == [tag |-> tag, lo |-> 0, hi |-> n, size |-> n]
PartLen(p) == p.hi - p.lo
IsWhole(p) == p.lo = 0 /\ p.hi = p.size

\* Vec::len
RECURSIVE BufLen(_)
BufLen(buf) == IF buf = << >> THEN 0 ELSE PartLen(Head(buf)) + BufLen(Tail(buf))

\* The bytes Vec::drain(..n) yields
RECURSIVE BufTake(_, _)
BufTake(buf, n) ==
    IF n <= 0 \/ buf = << >> THEN << >>
    ELSE LET p == Head(buf) IN
         IF PartLen(p) <= n
           THEN <<p>> \o BufTake(Tail(buf), n - PartLen(p))
           ELSE <<[p EXCEPT !.hi = p.lo + n]>>

\* The bytes Vec::drain(..n) leaves
RECURSIVE BufDrop(_, _)
BufDrop(buf, n) ==
    IF n <= 0 \/ buf = << >> THEN buf
    ELSE LET p == Head(buf) IN
         IF PartLen(p) <= n
           THEN BufDrop(Tail(buf), n - PartLen(p))
           ELSE <<[p EXCEPT !.lo = p.lo + n]>> \o Tail(buf)

\* bevy::ecs::component::Tick is a u32 compared by wrapping subtraction,
\* the ages clamped to MAX_CHANGE_AGE (u32::MAX less 1036799999).  The model
\* keeps the arithmetic and scales the width to 5 bits.
TickWrap == 32
MAX_CHANGE_AGE == 24
Min(a, b) == IF a < b THEN a ELSE b
RelativeTo(a, b) == (a - b) % TickWrap
\* Tick::is_newer_than(self, last_run, this_run)
IsNewerThan(self, prev_run, this_run) ==
    LET ticks_since_insert == Min(RelativeTo(this_run, self), MAX_CHANGE_AGE)
        ticks_since_system == Min(RelativeTo(this_run, prev_run), MAX_CHANGE_AGE)
    IN  ticks_since_system > ticks_since_insert

\* struct RecipientData { last_ack }, struct TakenBuffer
RecipientData(last_ack) == [last_ack |-> last_ack]
TakenBuffer(destination, info, buffer, last_fragment) ==
    [destination |-> destination, info |-> info, buffer |-> buffer,
     last_fragment |-> last_fragment]

\* Buffers::take: targets is a sequence of <<destination, info>>; the result
\* is the handle and what is left in Buffers.current.
RECURSIVE TakeEach(_, _, _)
TakeEach(cur, channel, targets) ==
    IF targets = << >> THEN [taken |-> << >>, current |-> cur]
    ELSE LET destination == Head(targets)[1]
             key == BufferKey(destination, channel)
             buffer == IF key \in DOMAIN cur THEN cur[key] ELSE << >>
             rest == TakeEach(RemoveKey(cur, key), channel, Tail(targets))
         IN  [taken |-> <<TakenBuffer(destination, Head(targets)[2], buffer, 0)>>
                          \o rest.taken,
              current |-> rest.current]

\* a tick written with the most significant byte first
ToLeBytes_BigEndian(t) ==
    <<(t \div 16777216) % 256, (t \div 65536) % 256, (t \div 256) % 256, t % 256>>

\* u32::to_le_bytes of a Tick
ToLeBytes(t) ==
    <<t % 256, (t \div 256) % 256, (t \div 65536) % 256, (t \div 16777216) % 256>>

Take(cur, t, channel, this_run, targets) ==
    LET each == TakeEach(cur, channel, targets) IN
    [handle |-> [this_run |-> this_run, tick |-> ToLeBytes(t), channel |-> channel,
                 taken |-> each.taken, overhead |-> 0],
     current |-> each.current]

\* impl Drop for TakenBuffers: every buffer goes back into Buffers.current
RECURSIVE DropTaken(_, _, _)
DropTaken(cur, channel, tk) ==
    IF tk = << >> THEN cur
    ELSE DropTaken((BufferKey(Head(tk).destination, channel) :> Head(tk).buffer)
                     @@ cur,
                   channel, Tail(tk))

\* a drop that gives back only the bytes up to the last fragment point
Drop_UpToLastFragment(handle, cur) ==
    DropTaken(cur, handle.channel,
              [i \in DOMAIN handle.taken |->
                 [handle.taken[i] EXCEPT !.buffer = BufTake(@, handle.taken[i].last_fragment)]])

\* impl Drop for TakenBuffers
Drop(handle, cur) == DropTaken(cur, handle.channel, handle.taken)

\* TakenBuffers::overhead (a u8; the callers register 7 once per message)
Overhead(handle, overhead) == [handle EXCEPT !.overhead = @ + overhead]


\* send_filtered that looks at the rule only, not at the baseline
SendFiltered_IgnoresBaseline(handle, filter, buf) ==
    [handle EXCEPT !.taken =
       [i \in DOMAIN handle.taken |->
          LET tk == handle.taken[i] IN
          IF Includes(filter.rule, tk.destination)
            THEN [tk EXCEPT !.buffer = @ \o buf]
            ELSE tk]]

\* TakenBuffers::send_filtered: filter is [rule, changed]; the bytes of buf
\* go to every taken buffer the filter lets through.
SendFiltered(handle, filter, buf) ==
    [handle EXCEPT !.taken =
       [i \in DOMAIN handle.taken |->
          LET tk == handle.taken[i] IN
          IF /\ Includes(filter.rule, tk.destination)
             /\ \/ tk.info.last_ack = None
                \/ IsNewerThan(filter.changed, Unwrap(tk.info.last_ack), handle.this_run)
            THEN [tk EXCEPT !.buffer = @ \o buf]
            ELSE tk]]

\* TakenBuffers::send
Send(handle, rule, buf) ==
    SendFiltered(handle, [rule |-> rule, changed |-> handle.this_run], buf)

\* a cut that always falls on the cap
FragmentEnd_AtCap(len, last_fragment) == IF len < CAP THEN len ELSE CAP

\* fragment: "let end = if len < CAP || taken.last_fragment == 0 { .. }"
FragmentEnd(len, last_fragment) ==
    IF len < CAP \/ last_fragment = 0 THEN len ELSE last_fragment

\* A packet as pushed to Buffers.filled or yielded by drain: the key, the
\* tick prefix and the bytes after it.
Packet(key, t, payload) == [key |-> key, tick |-> t, payload |-> payload]

RECURSIVE FragmentLoop(_, _, _, _)

\* a loop that runs only while the buffer is over the cap
RECURSIVE FragmentLoop_WhileOverCap(_, _, _, _)
FragmentLoop_WhileOverCap(tk, t, channel, out) ==
    LET len == BufLen(tk.buffer) IN
    IF len > CAP
      THEN LET end == FragmentEnd(len, tk.last_fragment) IN
           FragmentLoop_WhileOverCap(
               [tk EXCEPT !.buffer = BufDrop(@, end), !.last_fragment = 0],
               t, channel,
               out \o <<Packet(BufferKey(tk.destination, channel), t,
                               BufTake(tk.buffer, end))>>)
      ELSE [taken |-> tk, out |-> out]

\* fragment: the "while len > THRESHOLD" loop on one taken buffer
FragmentLoop(tk, t, channel, out) ==
    LET len == BufLen(tk.buffer) IN
    IF len > THRESHOLD
      THEN LET end == FragmentEnd(len, tk.last_fragment) IN
           FragmentLoop([tk EXCEPT !.buffer = BufDrop(@, end), !.last_fragment = 0],
                        t, channel,
                        out \o <<Packet(BufferKey(tk.destination, channel), t,
                                        BufTake(tk.buffer, end))>>)
      ELSE [taken |-> tk, out |-> out]

\* a fragment that cuts at the last fragment point whenever there is one
FragmentOne_CutsAtLastFragment(tk, overhead, t, channel) ==
    LET len == BufLen(tk.buffer) IN
    IF len <= overhead
      THEN [taken |-> [tk EXCEPT !.buffer = BufTake(@, tk.last_fragment)],
            out |-> << >>]
    ELSE IF len < THRESHOLD
      THEN [taken |-> [tk EXCEPT !.last_fragment = len], out |-> << >>]
    ELSE IF len > THRESHOLD /\ tk.last_fragment > 0
      THEN [taken |-> [tk EXCEPT !.buffer = BufDrop(@, tk.last_fragment),
                                 !.last_fragment = 0],
            out |-> <<Packet(BufferKey(tk.destination, channel), t,
                             BufTake(tk.buffer, tk.last_fragment))>>]
    ELSE FragmentLoop(tk, t, channel, << >>)

\* fragment: the body of "for taken in &mut self.taken"
FragmentOne(tk, overhead, t, channel) ==
    LET len == BufLen(tk.buffer) IN
    IF len <= overhead
      THEN [taken |-> [tk EXCEPT !.buffer = BufTake(@, tk.last_fragment)],
            out |-> << >>]
    ELSE IF len < THRESHOLD
      THEN [taken |-> [tk EXCEPT !.last_fragment = len], out |-> << >>]
    ELSE FragmentLoop(tk, t, channel, << >>)

\* TakenBuffers::fragment: the handle and Buffers.filled after the call
RECURSIVE FragmentEach(_, _, _, _)
FragmentEach(tk, overhead, t, channel) ==
    IF tk = << >> THEN [taken |-> << >>, out |-> << >>]
    ELSE LET one == FragmentOne(Head(tk), overhead, t, channel)
             rest == FragmentEach(Tail(tk), overhead, t, channel)
         IN  [taken |-> <<one.taken>> \o rest.taken, out |-> one.out \o rest.out]

Fragment(handle, fill) ==
    LET each == FragmentEach(handle.taken, handle.overhead, handle.tick, handle.channel)
    IN  [handle |-> [handle EXCEPT !.taken = each.taken, !.overhead = 0],
         filled |-> fill \o each.out]

\* Buffers::drain: the packets of the non-empty buffers of current (a hash
\* map, so a set here), then those of filled; current keeps its keys with
\* empty buffers.
DrainCurrent(cur, t) ==
    LET tick_bytes == ToLeBytes(t) IN
    {Packet(key, tick_bytes, cur[key]) : key \in {k \in DOMAIN cur : cur[k] # << >>}}
Drain(cur, fill, t) ==
    [packets |-> [current |-> DrainCurrent(cur, t), filled |-> fill],
     current |-> [key \in DOMAIN cur |-> << >>],
     filled |-> << >>]


\* ------------------------------------------- the buffers used on their own

\* The idle state of the receive side, for the specifications of the send side.
RecvIdle(ident, identifiers) ==
    /\ our_ident = ident
    /\ world = << >>
    /\ from_id = [id \in identifiers |-> None]
    /\ to_id = << >>
    /\ panicked = FALSE
    /\ net_events = << >>
    /\ net = NoNetwork
    /\ last = Op("init", ident, 0, <<0, 0>>, "", 0,
                 State(<< >>, [id \in identifiers |-> None], << >>, FALSE))

\* The recipients a handle is taken for, none of them with a baseline.
FragTargets ==
    { <<<<IdentityClient(1), RecipientData(None)>>>>,
      <<<<IdentityClient(1), RecipientData(None)>>,
        <<IdentityClient(2), RecipientData(None)>>>> }

\* <<overhead registered, bytes written>> of the messages written.
MsgShapes == {<<0, 500>>, <<0, 600>>, <<0, 1300>>, <<7, 7>>, <<7, 600>>}
FragRules == {SendRuleAll, SendRuleOnly(1)}
MsgTag == <<"msg", <<0, 0>>, "">>

\* Buffers::take
FragTake ==
    /\ taken = None
    /\ sent = None
    /\ \E targets \in FragTargets :
         LET r == Take(current, Tick, EntityChannel, change_tick, targets) IN
         /\ taken' = Some(r.handle)
         /\ current' = r.current
    /\ UNCHANGED <<regVars, recvVars, last, sendVars, Tick, filled, pending, written, sent>>

\* One message: overhead() and send() on the handle.
FragWrite ==
    /\ taken # None
    /\ ~pending
    /\ written < MaxMsgs
    /\ \E shape \in MsgShapes, rule \in FragRules :
         taken' = Some(Send(Overhead(Unwrap(taken), shape[1]), rule,
                            <<Part(MsgTag, shape[2])>>))
    /\ pending' = TRUE
    /\ written' = written + 1
    /\ UNCHANGED <<regVars, recvVars, last, sendVars, Tick, current, filled, sent>>

\* TakenBuffers::fragment after the message
FragFragment ==
    /\ taken # None
    /\ pending
    /\ LET r == Fragment(Unwrap(taken), filled) IN
         /\ taken' = Some(r.handle)
         /\ filled' = r.filled
    /\ pending' = FALSE
    /\ UNCHANGED <<regVars, recvVars, last, sendVars, Tick, current, written, sent>>

\* The handle goes out of scope.
FragDrop ==
    /\ taken # None
    /\ ~pending
    /\ current' = Drop(Unwrap(taken), current)
    /\ taken' = None
    /\ UNCHANGED <<regVars, recvVars, last, sendVars, Tick, filled, pending, written, sent>>

\* Buffers::drain, every packet consumed
FragDrain ==
    /\ taken = None
    /\ written > 0
    /\ LET r == Drain(current, filled, Tick) IN
         /\ sent' = Some(r.packets)
         /\ current' = r.current
         /\ filled' = r.filled
    /\ written' = 0
    /\ UNCHANGED <<regVars, recvVars, last, sendVars, Tick, taken, pending>>

\* Direction::send_messages: the transport takes the drained packets.
FragSendMessages ==
    /\ sent # None
    /\ sent' = None
    /\ UNCHANGED <<regVars, recvVars, last, sendVars, Tick, current, filled, taken,
                   pending, written>>

\* increment_tick, between two uses of the buffers
FragIncrementTick ==
    /\ taken = None
    /\ sent = None
    /\ Tick < MaxTick
    /\ Tick' = Tick + 1
    /\ UNCHANGED <<regVars, recvVars, last, sendVars, current, filled, taken, pending,
                   written, sent>>

FragInit ==
    /\ RecvIdle(IdentityServer, Identifiers)
    /\ SendIdle
    /\ BuffersIdle
    /\ RegIdle

FragNext ==
    FragTake \/ FragWrite \/ FragFragment \/ FragDrop \/ FragDrain \/ FragSendMessages
    \/ FragIncrementTick

FragSpec == FragInit /\ [][FragNext]_vars

\* C10: with fragment() called after each message, every packet fragment()
\* emits is made of whole messages: no packet starts or ends inside the bytes
\* of a message.
C10_WholeMessages ==
    \A i \in DOMAIN filled :
       \A j \in DOMAIN filled[i].payload : IsWhole(filled[i].payload[j])

\* C10 witness: two messages of 600 bytes went over the cap together; the
\* first was cut off at the last fragment point as a packet of its own and
\* the second stays in the buffer.
C10_Witness ==
    /\ taken # None /\ ~pending
    /\ \E i \in DOMAIN filled : BufLen(filled[i].payload) = 600
    /\ \E k \in DOMAIN Unwrap(taken).taken :
          BufLen(Unwrap(taken).taken[k].buffer) = 600


\* C11: with fragment() called after each message, every packet fragment()
\* emits has a payload within the cap, except a packet made of exactly one
\* message that alone exceeds the cap; no packet over the cap holds two or
\* more messages.
C11_WithinCap ==
    \A i \in DOMAIN filled :
       \/ BufLen(filled[i].payload) <= CAP
       \/ /\ Len(filled[i].payload) = 1
          /\ IsWhole(filled[i].payload[1])
          /\ filled[i].payload[1].size > CAP


\* The tick a packet starts with, read back as a little-endian u32
TickOfPacket(p) ==
    IF Len(p.tick) # 4 THEN -1
    ELSE p.tick[1] + 256 * p.tick[2] + 65536 * p.tick[3] + 16777216 * p.tick[4]

\* C14: drain(tick) yields for every non-empty pending buffer exactly one
\* packet, the 4-byte little-endian tick followed by the bytes of the buffer,
\* and leaves the buffer empty; it yields nothing for an empty buffer; it
\* yields every packet fragment() had cut off exactly once; a second drain
\* without a write in between yields no packet.
C14_DrainYields ==
    [][(sent = None /\ sent' # None) =>
         LET pk == Unwrap(sent')
             again == Drain(current', filled', Tick')
         IN
         /\ \A key \in DOMAIN current :
               LET of_key == {p \in pk.current : p.key = key} IN
               IF current[key] = << >> THEN of_key = {}
               ELSE /\ Cardinality(of_key) = 1
                    /\ \A p \in of_key :
                          TickOfPacket(p) = Tick /\ p.payload = current[key]
         /\ \A p \in pk.current : p.key \in DOMAIN current
         /\ pk.filled = filled
         /\ \A key \in DOMAIN current' : current'[key] = << >>
         /\ filled' = << >>
         /\ again.packets.current = {}
         /\ again.packets.filled = << >>
      ]_vars

\* C14 witness: a drain at a tick other than 0 yielded the packet of a
\* pending buffer and a packet cut off before, while the buffer of another
\* recipient was empty.
C14_Witness ==
    /\ sent # None
    /\ Tick > 0
    /\ Unwrap(sent).current # {}
    /\ Unwrap(sent).filled # << >>
    /\ Cardinality(Unwrap(sent).current) < Cardinality(DOMAIN current)


\* ------------------------------------- a handle released at any point

\* The handle goes out of scope before fragment() was called for the last
\* message (an early return, or unwinding).
FragDropEarly ==
    /\ taken # None
    /\ pending
    /\ current' = Drop(Unwrap(taken), current)
    /\ taken' = None
    /\ pending' = FALSE
    /\ UNCHANGED <<regVars, recvVars, last, sendVars, Tick, filled, written, sent>>

ReleaseNext == FragNext \/ FragDropEarly

ReleaseSpec == FragInit /\ [][ReleaseNext]_vars

\* C13: when a set of taken buffers is released, after fragment() or before
\* it, the buffer of every taken recipient is in the pool under (recipient,
\* channel) with exactly the bytes the handle held for it (what was written
\* and neither emitted as a packet nor discarded), the other buffers of the
\* pool are as they were, and no buffer stays outside the pool.
C13_AllReturned ==
    [][(taken # None /\ taken' = None) =>
         LET h == Unwrap(taken) IN
         /\ \A i \in DOMAIN h.taken :
               LET key == BufferKey(h.taken[i].destination, h.channel) IN
               /\ key \in DOMAIN current'
               /\ current'[key] = h.taken[i].buffer
         /\ \A key \in DOMAIN current :
               key \in DOMAIN current' /\ current'[key] = current[key]
         /\ DOMAIN current' =
               DOMAIN current \cup
                 {BufferKey(h.taken[i].destination, h.channel) : i \in DOMAIN h.taken}
      ]_vars

\* C13 witness: a handle was released before fragment(): the pool holds a
\* message larger than the threshold, which fragment() would have emitted,
\* next to the buffer of a recipient the message did not go to.
C13_Witness ==
    /\ taken = None
    /\ \E k1, k2 \in DOMAIN current :
          /\ BufLen(current[k1]) > THRESHOLD
          /\ current[k2] = << >>


\* ============================================================ the send phase

\* Identifiers of the objects the application spawns: one of a type of its
\* own and the one of client 1 (entity_type 0, Identifier::is_client).
SendIdentifiers == Identifiers \cup {<<0, 1>>}

\* A despawn message: the packet id 0 and the bincode of the Identifier
\* (a u8 and a u32).
DespawnMessageBytes == 6
DespawnMessage(identifier) == <<Part(<<"despawn", identifier, "">>, DespawnMessageBytes)>>

\* Connections as a sequence in the order connections.iter() yields them.
IdentityOrder(ident) == IF ident = IdentityServer THEN 0 ELSE ident[2]
RECURSIVE SeqOfIdentities(_)
SeqOfIdentities(idents) ==
    IF idents = {} THEN << >>
    ELSE LET first == CHOOSE i \in idents :
                         \A j \in idents : IdentityOrder(i) <= IdentityOrder(j)
         IN  <<first>> \o SeqOfIdentities(idents \ {first})
ConnectionSeq(conns) == SeqOfIdentities(DOMAIN conns)

\* One entry of Connections.
Connection(new, replicate) == [new |-> new, replicate |-> replicate]

\* IdentifierMap::remove_entity: the identifier the entity had, and the map
RemoveEntity(f, t, entity) ==
    IF entity \in DOMAIN t
      THEN [id |-> Some(t[entity]),
            from_id |-> [f EXCEPT ![t[entity]] = None],
            to_id |-> RemoveKey(t, entity)]
      ELSE [id |-> None, from_id |-> f, to_id |-> t]

\* send_despawns: whether the despawn of an entity may be announced
MayAnnounce(ident, hold, entity) == ident = IdentityServer \/ entity \in hold

\* send_despawns: the loop over removed.read(); m is [from_id, to_id,
\* current, filled].
RECURSIVE SendDespawnsLoop(_, _, _, _, _, _)
SendDespawnsLoop(removed, m, ident, hold, conns, t) ==
    IF removed = << >> THEN m
    ELSE LET entity == Head(removed)
             r == RemoveEntity(m.from_id, m.to_id, entity)
             m1 == [m EXCEPT !.from_id = r.from_id, !.to_id = r.to_id]
         IN
         IF r.id = None THEN SendDespawnsLoop(Tail(removed), m1, ident, hold, conns, t)
         ELSE IF ~MayAnnounce(ident, hold, entity)
           THEN SendDespawnsLoop(Tail(removed), m1, ident, hold, conns, t)
         ELSE LET tk == Take(m1.current, t, DespawnChannel, 0,
                             [i \in DOMAIN ConnectionSeq(conns) |->
                                <<ConnectionSeq(conns)[i], RecipientData(None)>>])
                  h1 == Send(tk.handle, SendRuleAll, DespawnMessage(Unwrap(r.id)))
                  fr == Fragment(h1, m1.filled)
              IN  SendDespawnsLoop(Tail(removed),
                                   [m1 EXCEPT !.current = Drop(fr.handle, tk.current),
                                              !.filled = fr.filled],
                                   ident, hold, conns, t)

\* track_authority: HeldAuthority after the two loops
TrackAuthorityHeld(ident, w, hold, chg, removed) ==
    IF ident = IdentityServer THEN hold
    ELSE LET client_id == ident[2]
             claimable == {e \in chg : CanClaim(Unwrap(w[e].authority), client_id)}
         IN  ((hold \cup claimable) \ (chg \ claimable)) \ removed


\* The entity handles something still refers to; the store hands out none of
\* them again.
RECURSIVE SeqRange(_)
SeqRange(q) == IF q = << >> THEN {} ELSE {Head(q)} \cup SeqRange(Tail(q))
SendUsedEntities ==
    (DOMAIN world) \cup (DOMAIN to_id) \cup held \cup authority_changed
      \cup removed_authority \cup SeqRange(removed_identifier)
SendNewEntity == CHOOSE e \in Entities \ SendUsedEntities :
                    \A o \in Entities \ SendUsedEntities : e <= o

\* The record kept in last by the send phase.
SendOp(kind, removed, map, hold) ==
    [kind |-> kind, removed |-> removed, to_id |-> map, held |-> hold]
AppOp == SendOp("app", << >>, << >>, {})

\* The application spawns an identified object with the given groups
\* (spawn_with_id), with or without an Authority component.
AppSpawn(values, authorities) ==
    /\ phase = "update"
    /\ cycles < MaxCycles
    /\ Entities \ SendUsedEntities # {}
    /\ \E identifier \in SendIdentifiers, value \in values, authority \in authorities :
         LET e == SendNewEntity IN
         /\ StatusKind(from_id[identifier]) = "None"
         /\ world' = (e :> Components(Some(identifier), authority, value, NoValues, None))
                       @@ world
         /\ from_id' = [from_id EXCEPT ![identifier] = Alive(e)]
         /\ to_id' = (e :> identifier) @@ to_id
         /\ authority_changed' = IF authority = None THEN authority_changed
                                 ELSE authority_changed \cup {e}
         /\ changed' = (e :> [b \in Bundles |-> change_tick]) @@ changed
    /\ last' = AppOp
    /\ UNCHANGED <<regVars, our_ident, net_events, net, panicked, held, removed_authority,
                   removed_identifier,
                   tracked, connections, phase, change_tick, last_run, cycles, bufVars>>

\* The application inserts or overwrites the Authority component of an entity.
AppInsertAuthority ==
    /\ phase = "update"
    /\ \E e \in DOMAIN world, a \in Authorities :
         /\ world' = [world EXCEPT ![e].authority = Some(a)]
         /\ authority_changed' = authority_changed \cup {e}
    /\ last' = AppOp
    /\ UNCHANGED <<regVars, our_ident, net_events, net,
                   from_id, to_id, panicked, held, removed_authority,
                   removed_identifier, tracked, connections, phase, change_tick,
                   last_run, changed, cycles, bufVars>>

\* The application removes the Authority component of an entity.
AppRemoveAuthority ==
    /\ phase = "update"
    /\ \E e \in DOMAIN world :
         /\ world[e].authority # None
         /\ world' = [world EXCEPT ![e].authority = None]
         /\ authority_changed' = authority_changed \ {e}
         /\ removed_authority' = removed_authority \cup {e}
    /\ last' = AppOp
    /\ UNCHANGED <<regVars, our_ident, net_events, net,
                   from_id, to_id, panicked, held, removed_identifier,
                   tracked, connections, phase, change_tick, last_run, changed,
                   cycles, bufVars>>

\* The application despawns an entity (World::despawn).
AppDespawn ==
    /\ phase = "update"
    /\ \E e \in DOMAIN world :
         /\ world' = RemoveKey(world, e)
         /\ changed' = RemoveKey(changed, e)
         /\ authority_changed' = authority_changed \ {e}
         /\ removed_authority' = IF world[e].authority = None THEN removed_authority
                                 ELSE removed_authority \cup {e}
         /\ removed_identifier' = Append(removed_identifier, e)
    /\ last' = AppOp
    /\ UNCHANGED <<regVars, our_ident, net_events, net,
                   from_id, to_id, panicked, held, tracked, connections,
                   phase, change_tick, last_run, cycles, bufVars>>

\* send_despawns, the first system of the send phase
SendDespawns ==
    /\ phase = "update"
    /\ LET m == SendDespawnsLoop(removed_identifier,
                                 [from_id |-> from_id, to_id |-> to_id,
                                  current |-> current, filled |-> filled],
                                 our_ident, held, connections, Tick)
       IN  /\ from_id' = m.from_id
           /\ to_id' = m.to_id
           /\ current' = m.current
           /\ filled' = m.filled
    /\ removed_identifier' = << >>
    /\ phase' = "track_authority"
    /\ last' = SendOp("send_despawns", removed_identifier, to_id, held)
    /\ UNCHANGED <<regVars, our_ident, net_events, net, world, panicked, held, authority_changed,
                   removed_authority, tracked, connections, change_tick, last_run,
                   changed, cycles, Tick, taken, pending, written, sent>>

\* track_authority, the second system of the send phase
TrackAuthority(next) ==
    /\ phase = "track_authority"
    /\ held' = TrackAuthorityHeld(our_ident, world, held, authority_changed,
                                  removed_authority)
    /\ authority_changed' = {}
    /\ removed_authority' = {}
    /\ tracked' = [e \in DOMAIN world |-> world[e].authority]
    /\ phase' = next
    /\ last' = SendOp("track_authority", << >>, << >>, held)
    /\ UNCHANGED <<regVars, recvVars, removed_identifier, connections, change_tick, last_run,
                   changed, cycles, bufVars>>

\* send_buffers: the buffers are drained and the packets handed to the
\* transport (Direction::send_messages)
SendBuffers(next) ==
    /\ phase = "send_buffers"
    /\ LET r == Drain(current, filled, Tick) IN
         /\ current' = r.current
         /\ filled' = r.filled
         /\ last' = [kind |-> "send_buffers", packets |-> r.packets]
    /\ phase' = next
    /\ UNCHANGED <<regVars, recvVars, held, authority_changed, removed_authority,
                   removed_identifier, tracked, connections, change_tick, last_run,
                   changed, cycles, Tick, taken, pending, written, sent>>

\* The connections of a process: none, or all its peers, replicating.
ConnectionChoices(ident) ==
    IF ident = IdentityServer
      THEN { << >>, [i \in {IdentityClient(c) : c \in ClientIds} |-> Connection(FALSE, TRUE)] }
      ELSE { << >>, [i \in {IdentityServer} |-> Connection(FALSE, TRUE)] }

DespawnInit ==
    /\ \E ident \in {IdentityServer, IdentityClient(1)} :
         /\ RecvIdle(ident, SendIdentifiers)
         /\ connections \in ConnectionChoices(ident)
    /\ held = {}
    /\ authority_changed = {}
    /\ removed_authority = {}
    /\ removed_identifier = << >>
    /\ tracked = << >>
    /\ phase = "update"
    /\ change_tick = 1
    /\ last_run = 0
    /\ changed = << >>
    /\ cycles = 0
    /\ BuffersIdle
    /\ RegIdle

DespawnNext ==
    \/ AppSpawn({NoValues}, {None} \cup {Some(a) : a \in Authorities})
    \/ AppInsertAuthority
    \/ AppRemoveAuthority
    \/ AppDespawn
    \/ SendDespawns
    \/ TrackAuthority("send_buffers")
    \/ SendBuffers("update")

DespawnSpec == DespawnInit /\ [][DespawnNext]_vars


\* Bytes with the tag (a despawn message for an identifier, a group message
\* of an object) are in the buffer of the connection, or in a packet cut off
\* for it.
HasPart(dest, channel, tag) ==
    LET key == BufferKey(dest, channel) IN
        \/ /\ key \in DOMAIN current
           /\ \E j \in DOMAIN current[key] : current[key][j].tag = tag
        \/ \E i \in DOMAIN filled :
              /\ filled[i].key = key
              /\ \E j \in DOMAIN filled[i].payload : filled[i].payload[j].tag = tag
HasDespawn(dest, identifier) ==
    HasPart(dest, DespawnChannel, <<"despawn", identifier, "">>)

\* The Authority of the entity when track_authority last ran let this
\* process claim it (Free or Client(self)).
TrackedClaimable(e) ==
    /\ our_ident # IdentityServer
    /\ e \in DOMAIN tracked
    /\ tracked[e] # None
    /\ CanClaim(Unwrap(tracked[e]), our_ident[2])

\* C7 (as stated): in the send phase a client writes a despawn message for a
\* locally destroyed identified object iff its authority, when authority was
\* last tracked, was Free or Client(self); the server writes one for every
\* locally destroyed identified object.  "Writes" is read per connection:
\* the message is in the buffer of every peer.
C7_DespawnAnnounced ==
    last.kind = "send_despawns" =>
      \A i \in DOMAIN last.removed :
         LET e == last.removed[i] IN
         e \in DOMAIN last.to_id =>
           \A dest \in DOMAIN connections :
              HasDespawn(dest, last.to_id[e])
                <=> (our_ident = IdentityServer \/ TrackedClaimable(e))


\* ------------------------------------------------------------ iterate_world

\* The header of an entity message (Packet::ENTITY, entity_type, id), its
\* terminator, the overhead iterate_world registers for the two, and a group
\* message (packet id and a one-byte component).
EntityHeaderBytes == 6
EntityEndBytes == 1
EntityOverhead == 7
GroupBytes == 2

\* The bundles in the order of the registry, and the send method each is
\* registered with in the direction of this process.
BundleSeq == <<"A", "B">>
BundleMethod(ident, b) ==
    IF ident # IdentityServer THEN "ClientToServer"
    ELSE IF b = "A" THEN "ServerToAll" ELSE "ServerToOwner"

\* an observer rule that sends nothing for an object without an owner
MethodRule_ObserverNeedsOwner(method, client) ==
    CASE method = "ClientToServer" -> Some(SendRuleAll)
      [] method = "ServerToAll" -> Some(SendRuleAll)
      [] method = "ServerToOwner" ->
           IF client = None THEN None ELSE Some(SendRuleOnly(Unwrap(client)))
      [] method = "ServerToObserver" ->
           IF client = None THEN None ELSE Some(SendRuleExcept(Unwrap(client)))

\* SendMethod::rule
MethodRule(method, client) ==
    CASE method = "ClientToServer" -> Some(SendRuleAll)
      [] method = "ServerToAll" -> Some(SendRuleAll)
      [] method = "ServerToOwner" ->
           IF client = None THEN None ELSE Some(SendRuleOnly(Unwrap(client)))
      [] method = "ServerToObserver" ->
           IF client = None THEN Some(SendRuleAll) ELSE Some(SendRuleExcept(Unwrap(client)))

\* iterate_world: "let owner = ..." for an entity without an Owner component
OwnerOf(identifier) == IF identifier[1] = 0 THEN Some(identifier[2]) ELSE None

\* update_archetype_cache and the authority check of iterate_world: the
\* entities iterate_world looks at, and the bundles of an entity.
HasBundle(c, b) == c.value[b] # None
\* a client that also looks at the entities without an Authority component
Eligible_WithoutAuthority(ident, c) ==
    /\ c.identifier # None
    /\ \E b \in Bundles : HasBundle(c, b)
    /\ (ident # IdentityServer /\ c.authority # None) =>
         CanClaim(Unwrap(c.authority), ident[2])

Eligible(ident, c) ==
    /\ c.identifier # None
    /\ \E b \in Bundles : HasBundle(c, b)
    /\ ident # IdentityServer =>
         /\ c.authority # None
         /\ CanClaim(Unwrap(c.authority), ident[2])

\* iterate_world: last_changed of a bundle of an entity
BundleLastChanged(chg, b, prev_run, this_run) ==
    IF IsNewerThan(chg[b], prev_run, this_run) THEN chg[b] ELSE prev_run

\* iterate_world: "changed" of an entity after the bundles in bs
RECURSIVE EntityChanged(_, _, _, _, _)
EntityChanged(chg, bs, acc, prev_run, this_run) ==
    IF bs = << >> THEN acc
    ELSE EntityChanged(chg, Tail(bs),
                       IF /\ IsNewerThan(chg[Head(bs)], prev_run, this_run)
                          /\ IsNewerThan(chg[Head(bs)], acc, this_run)
                         THEN chg[Head(bs)] ELSE acc,
                       prev_run, this_run)

\* The serialize function of a bundle: the group message goes to the
\* recipients of the rule of its send method, filtered by its change tick.
BundleSerialize(handle, ident, identifier, b, chg_tick) ==
    LET rule == MethodRule(BundleMethod(ident, b), OwnerOf(identifier)) IN
    IF rule = None THEN handle
    ELSE SendFiltered(handle, [rule |-> Unwrap(rule), changed |-> chg_tick],
                      <<Part(<<"group", identifier, b>>, GroupBytes)>>)

\* iterate_world: the loop over the bundles of an entity
RECURSIVE SerializeBundles(_, _, _, _, _, _, _, _)
SerializeBundles(handle, ident, identifier, chg, bs, new_clients, prev_run, this_run) ==
    IF bs = << >> THEN handle
    ELSE LET lc == BundleLastChanged(chg, Head(bs), prev_run, this_run)
             h1 == IF ~new_clients /\ lc = prev_run THEN handle
                   ELSE BundleSerialize(handle, ident, identifier, Head(bs), lc)
         IN  SerializeBundles(h1, ident, identifier, chg, Tail(bs), new_clients,
                              prev_run, this_run)


\* The bundles of the archetype of an entity (ArchetypeCacheEntry.bundles)
RECURSIVE BundlesOf(_, _)
BundlesOf(c, bs) ==
    IF bs = << >> THEN << >>
    ELSE (IF HasBundle(c, Head(bs)) THEN <<Head(bs)>> ELSE << >>) \o BundlesOf(c, Tail(bs))

EntityHeader(identifier) == <<Part(<<"entity", identifier, "">>, EntityHeaderBytes)>>
EntityEnd(identifier) == <<Part(<<"end", identifier, "">>, EntityEndBytes)>>

\* a loop body that skips an unchanged entity even when a peer is new
IterateEntity_SkipsUnchanged(r, ident, c, chg, new_clients, prev_run, this_run) ==
    LET bs == BundlesOf(c, BundleSeq)
        identifier == Unwrap(c.identifier)
    IN
    IF EntityChanged(chg, bs, prev_run, prev_run, this_run) = prev_run
      THEN r
    ELSE LET h1 == Send(Overhead(r.handle, EntityOverhead), SendRuleAll,
                        EntityHeader(identifier))
             h2 == SerializeBundles(h1, ident, identifier, chg, bs, new_clients,
                                    prev_run, this_run)
             h3 == Send(h2, SendRuleAll, EntityEnd(identifier))
         IN  Fragment(h3, r.filled)

\* iterate_world: the body of the loop over the entities; r is [handle, filled]
IterateEntity(r, ident, c, chg, new_clients, prev_run, this_run) ==
    LET bs == BundlesOf(c, BundleSeq)
        identifier == Unwrap(c.identifier)
    IN
    IF ~new_clients /\ EntityChanged(chg, bs, prev_run, prev_run, this_run) = prev_run
      THEN r
    ELSE LET h1 == Send(Overhead(r.handle, EntityOverhead), SendRuleAll,
                        EntityHeader(identifier))
             h2 == SerializeBundles(h1, ident, identifier, chg, bs, new_clients,
                                    prev_run, this_run)
             h3 == Send(h2, SendRuleAll, EntityEnd(identifier))
         IN  Fragment(h3, r.filled)

\* iterate_world: the loop over the entities of the cached archetypes, here
\* in the order of their handles
RECURSIVE IterateEntities(_, _, _, _, _, _, _, _)
IterateEntities(r, es, ident, w, chgs, new_clients, prev_run, this_run) ==
    IF es = {} THEN r
    ELSE LET e == CHOOSE x \in es : \A y \in es : x <= y IN
         IterateEntities(IterateEntity(r, ident, w[e], chgs[e], new_clients,
                                       prev_run, this_run),
                         es \ {e}, ident, w, chgs, new_clients, prev_run, this_run)

\* iterate_world: the recipients the buffers are taken for
RECURSIVE ReplicateTargets(_, _, _)
ReplicateTargets(conns, order, prev_run) ==
    IF order = << >> THEN << >>
    ELSE LET i == conns[Head(order)] IN
         (IF ~i.replicate THEN << >>
          ELSE <<<<Head(order),
                   RecipientData(IF i.new THEN None ELSE Some(prev_run))>>>>)
           \o ReplicateTargets(conns, Tail(order), prev_run)

\* iterate_world: Buffers.current and Buffers.filled after the system ran
IterateWorldBuffers(conns, ident, w, chgs, cur, fill, t, prev_run, this_run) ==
    IF DOMAIN conns = {} THEN [current |-> cur, filled |-> fill]
    ELSE LET new_clients == \E d \in DOMAIN conns : conns[d].new /\ conns[d].replicate
             tk == Take(cur, t, EntityChannel, this_run,
                        ReplicateTargets(conns, ConnectionSeq(conns), prev_run))
             r == IterateEntities([handle |-> tk.handle, filled |-> fill],
                                  {e \in DOMAIN w : Eligible(ident, w[e])},
                                  ident, w, chgs, new_clients, prev_run, this_run)
         IN  [current |-> Drop(r.handle, tk.current), filled |-> r.filled]

\* The values the application writes; a write through DerefMut marks the
\* component changed whatever the value.
SendWrites == {1}

\* The application changes the component of a bundle of an entity.
AppMutate ==
    /\ phase = "update"
    /\ cycles < MaxCycles
    /\ \E e \in DOMAIN world, b \in Bundles :
         /\ HasBundle(world[e], b)
         /\ \E val \in SendWrites :
              world' = [world EXCEPT ![e].value[b] = Some(val)]
         /\ changed' = [changed EXCEPT ![e][b] = change_tick]
    /\ last' = AppOp
    /\ UNCHANGED <<regVars, our_ident, net_events, net,
                   from_id, to_id, panicked, held, authority_changed,
                   removed_authority, removed_identifier, tracked, connections,
                   phase, change_tick, last_run, cycles, bufVars>>

\* A peer connects (Connected): it is new and does not replicate yet.
Connected ==
    /\ phase = "update"
    /\ cycles < MaxCycles
    /\ \E d \in Senders \ DOMAIN connections :
         connections' = (d :> Connection(TRUE, FALSE)) @@ connections
    /\ last' = AppOp
    /\ UNCHANGED <<regVars, recvVars, held, authority_changed, removed_authority,
                   removed_identifier, tracked, phase, change_tick, last_run,
                   changed, cycles, bufVars>>

\* Replication to a connected peer starts (StartReplication).
StartReplication ==
    /\ phase = "update"
    /\ cycles < MaxCycles
    /\ \E d \in DOMAIN connections :
         /\ ~connections[d].replicate
         /\ connections' = [connections EXCEPT ![d].replicate = TRUE]
    /\ last' = AppOp
    /\ UNCHANGED <<regVars, recvVars, held, authority_changed, removed_authority,
                   removed_identifier, tracked, phase, change_tick, last_run,
                   changed, cycles, bufVars>>

\* an iterate_world that stamps the objects it looks at with the Tick
IterateWorld_StampsTick(from) ==
    /\ phase = from
    /\ cycles < MaxCycles
    /\ LET r == IterateWorldBuffers(connections, our_ident, world, changed, current,
                                    filled, Tick, last_run, change_tick)
       IN  /\ current' = r.current
           /\ filled' = r.filled
    /\ world' = [e \in DOMAIN world |-> [world[e] EXCEPT !.last_entity = Some(Tick)]]
    /\ last_run' = change_tick
    /\ change_tick' = (change_tick + 1) % TickWrap
    /\ cycles' = cycles + 1
    /\ phase' = "send_buffers"
    /\ last' = [kind |-> "iterate_world", last_run |-> last_run,
                this_run |-> change_tick]
    /\ UNCHANGED <<regVars, our_ident, net_events, net,
                   from_id, to_id, panicked, held, authority_changed,
                   removed_authority, removed_identifier, tracked, connections, changed,
                   Tick, taken, pending, written, sent>>

\* iterate_world, the third system of the send phase
IterateWorld(from) ==
    /\ phase = from
    /\ cycles < MaxCycles
    /\ LET r == IterateWorldBuffers(connections, our_ident, world, changed, current,
                                    filled, Tick, last_run, change_tick)
       IN  /\ current' = r.current
           /\ filled' = r.filled
    /\ UNCHANGED <<regVars, Tick, taken, pending, written, sent>>
    /\ last_run' = change_tick
    /\ change_tick' = (change_tick + 1) % TickWrap
    /\ cycles' = cycles + 1
    /\ phase' = "send_buffers"
    /\ last' = [kind |-> "iterate_world", last_run |-> last_run,
                this_run |-> change_tick]
    /\ UNCHANGED <<regVars, recvVars, held, authority_changed, removed_authority,
                   removed_identifier, tracked, connections, changed>>

\* After the send phase a replicating peer is no longer new.
ConnectionsSeen ==
    /\ phase = "connections"
    /\ connections' = [d \in DOMAIN connections |->
                         IF connections[d].replicate
                           THEN Connection(FALSE, TRUE) ELSE connections[d]]
    /\ phase' = "update"
    /\ last' = AppOp
    /\ UNCHANGED <<regVars, recvVars, held, authority_changed, removed_authority,
                   removed_identifier, tracked, change_tick, last_run, changed,
                   cycles, bufVars>>


\* The groups an object is spawned with, and its Authority component.
SendValues == {[b \in Bundles |-> Some(1)],
               [b \in Bundles |-> IF b = "A" THEN Some(1) ELSE None]}
SendAuthorities ==
    IF our_ident = IdentityServer THEN {None}
    ELSE {None} \cup {Some(a) : a \in Authorities}

\* World::change_tick when the first entity is spawned: early, or right
\* before the counter wraps.  iterate_world ran the tick before.
SendInit ==
    /\ \E ident \in {IdentityServer, IdentityClient(1)} : RecvIdle(ident, SendIdentifiers)
    /\ held = {}
    /\ authority_changed = {}
    /\ removed_authority = {}
    /\ removed_identifier = << >>
    /\ tracked = << >>
    /\ connections = << >>
    /\ phase = "update"
    /\ change_tick \in {1, TickWrap - 1}
    /\ last_run = (change_tick - 1) % TickWrap
    /\ changed = << >>
    /\ cycles = 0
    /\ BuffersIdle
    /\ RegIdle

SendNext ==
    \/ AppSpawn(SendValues, SendAuthorities)
    \/ AppMutate
    \/ Connected
    \/ StartReplication
    \/ IterateWorld("update")
    \/ SendBuffers("connections")
    \/ ConnectionsSeen

SendSpec == SendInit /\ [][SendNext]_vars


\* ------------------------------------------------ what a send cycle wrote

\* The buffers are empty when iterate_world starts (send_buffers drained
\* them), so what they hold when it ends is what the cycle appended.
LastIsCycle == last.kind = "iterate_world"
HasGroup(dest, e, b) ==
    HasPart(dest, EntityChannel, <<"group", Unwrap(world[e].identifier), b>>)

\* The recipients of the cycle: those with a baseline (the change tick of
\* the previous run) and those without one (new).
HasBaseline(dest) == connections[dest].replicate /\ ~connections[dest].new
IsNewRecipient(dest) == connections[dest].replicate /\ connections[dest].new

\* The component of the group changed after the baseline of the cycle.
ChangedSince(e, b) == IsNewerThan(changed[e][b], last.last_run, last.this_run)

\* The send rule of the group of the object includes the recipient.
RuleIncludes(dest, e, b) ==
    LET rule == MethodRule(BundleMethod(our_ident, b),
                           OwnerOf(Unwrap(world[e].identifier)))
    IN  rule # None /\ Includes(Unwrap(rule), dest)

\* C8: for a recipient with a baseline b and a group whose data last changed
\* at a tick not newer than b, a send cycle appends no bytes of the group to
\* the buffer of the recipient, whatever other recipients the cycle has.
C8_NoRedundantSend ==
    LastIsCycle =>
      \A dest \in DOMAIN connections :
         HasBaseline(dest) =>
           \A e \in DOMAIN world, b \in Bundles :
              (HasBundle(world[e], b) /\ ~ChangedSince(e, b)) => ~HasGroup(dest, e, b)

\* C8 witness: a cycle with a new recipient and one with a baseline; a group
\* that did not change went to the new one and not to the other.
C8_Witness ==
    /\ LastIsCycle
    /\ \E d1, d2 \in DOMAIN connections, e \in DOMAIN world :
          /\ HasBaseline(d1) /\ IsNewRecipient(d2)
          /\ HasBundle(world[e], "A") /\ ~ChangedSince(e, "A")
          /\ HasGroup(d2, e, "A") /\ ~HasGroup(d1, e, "A")

\* C9: in the cycle in which a recipient without a baseline joins, it gets
\* the bytes of every group of every eligible live object whose send rule
\* includes it, changed or not; the recipients with a baseline get in that
\* cycle only the groups that changed since their baseline.
C9_NewRecipientGetsAll ==
    (LastIsCycle /\ \E d \in DOMAIN connections : IsNewRecipient(d)) =>
      /\ \A dest \in DOMAIN connections, e \in DOMAIN world, b \in Bundles :
            (/\ IsNewRecipient(dest)
             /\ Eligible(our_ident, world[e])
             /\ HasBundle(world[e], b)
             /\ RuleIncludes(dest, e, b)) => HasGroup(dest, e, b)
      /\ \A dest \in DOMAIN connections, e \in DOMAIN world, b \in Bundles :
            (HasBaseline(dest) /\ HasBundle(world[e], b) /\ HasGroup(dest, e, b))
              => ChangedSince(e, b)

\* C9 witness: in one cycle the recipient with a baseline got a group that
\* changed, and the new recipient got a group of an object nothing of which
\* changed, which the other did not get.
C9_Witness ==
    /\ LastIsCycle
    /\ \E d1, d2 \in DOMAIN connections, e1, e2 \in DOMAIN world, b1 \in Bundles :
          /\ HasBaseline(d1) /\ IsNewRecipient(d2) /\ e1 # e2
          /\ HasBundle(world[e1], b1) /\ ChangedSince(e1, b1) /\ HasGroup(d1, e1, b1)
          /\ \A b \in Bundles : HasBundle(world[e2], b) => ~ChangedSince(e2, b)
          /\ \E b2 \in Bundles : HasGroup(d2, e2, b2) /\ ~HasGroup(d1, e2, b2)

\* ------------------------------------------- what the transport is handed

\* send_buffers hands every packet of drain() to the transport: one of them
\* for the connection holds bytes with the tag.
LastIsSendBuffers == last.kind = "send_buffers"
Handed(dest, tag) ==
    \E p \in last.packets.current \cup
             {last.packets.filled[i] : i \in DOMAIN last.packets.filled} :
       /\ p.key = BufferKey(dest, EntityChannel)
       /\ \E j \in DOMAIN p.payload : p.payload[j].tag = tag
HandedFraming(dest, identifier) ==
    \/ Handed(dest, <<"entity", identifier, "">>)
    \/ Handed(dest, <<"end", identifier, "">>)
HandedGroup(dest, identifier) ==
    \E b \in Bundles : Handed(dest, <<"group", identifier, b>>)

\* C12: for every recipient, a message that wrote only its framing (entity
\* header and terminator, no group) to the buffer of the recipient is removed
\* by fragment() whatever the buffer held before the message, and only it: the
\* transport is handed the framing of an object exactly when it is handed a
\* group of the object.
C12_HeaderOnlyDiscarded ==
    LastIsSendBuffers =>
      \A dest \in DOMAIN connections, e \in DOMAIN world :
         world[e].identifier # None =>
           (HandedFraming(dest, Unwrap(world[e].identifier))
              <=> HandedGroup(dest, Unwrap(world[e].identifier)))


\* ------------------------------------------------ the rule of a send method

\* Identity::can_send
CanSend(ident, auth) ==
    IF ident = IdentityServer THEN TRUE
    ELSE auth = Some(AuthorityClient(ident[2]))

\* should_send: owner is the value of the Owner component, if any
ShouldSend(method, our_identity, auth, owner, identifier) ==
    IF ~CanSend(our_identity, auth) THEN None
    ELSE LET client_id == IF owner # None THEN owner
                          ELSE IF identifier[1] = 0 THEN Some(identifier[2])
                          ELSE None
         IN  MethodRule(method, client_id)

ServerMethods == {"ServerToAll", "ServerToOwner", "ServerToObserver"}
Owners == {None} \cup {Some(c) : c \in ClientIds}
RuleIdentifiers == {<<0, 1>>, <<0, 2>>, <<1, 1>>}
RuleTargets ==
    FragTargets \cup {<<<<IdentityClient(2), RecipientData(None)>>>>}

\* Buffers::take for the recipients of the server
RuleTake ==
    /\ taken = None
    /\ sent = None
    /\ \E targets \in RuleTargets :
         LET r == Take(current, Tick, EntityChannel, change_tick, targets) IN
         /\ taken' = Some(r.handle)
         /\ current' = r.current
    /\ UNCHANGED <<regVars, recvVars, last, sendVars, Tick, filled, pending, written, sent>>

\* The group of an object is written with the rule should_send gives for the
\* send method the group is registered with.
RuleSend ==
    /\ taken # None
    /\ ~pending
    /\ written < MaxMsgs
    /\ \E method \in ServerMethods, owner \in Owners, identifier \in RuleIdentifiers :
         LET rule == ShouldSend(method, our_ident, None, owner, identifier) IN
         /\ taken' = IF rule = None THEN taken
                     ELSE Some(Send(Unwrap(taken), Unwrap(rule),
                                    <<Part(<<"group", identifier, "">>, GroupBytes)>>))
         /\ last' = [kind |-> "rule", method |-> method, owner |-> owner,
                     identifier |-> identifier, before |-> Unwrap(taken)]
    /\ pending' = TRUE
    /\ written' = written + 1
    /\ UNCHANGED <<regVars, recvVars, sendVars, Tick, current, filled, sent>>

RuleInit ==
    /\ RecvIdle(IdentityServer, Identifiers)
    /\ SendIdle
    /\ BuffersIdle
    /\ RegIdle

RuleNext ==
    RuleTake \/ RuleSend \/ FragFragment \/ FragDrop \/ FragDrain \/ FragSendMessages

RuleSpec == RuleInit /\ [][RuleNext]_vars

\* The recipients the last write reached: those whose buffer grew.
LastIsRule == last.kind = "rule" /\ pending /\ taken # None
Reached(i) ==
    BufLen(Unwrap(taken).taken[i].buffer) > BufLen(last.before.taken[i].buffer)
RecipientAt(i) == Unwrap(taken).taken[i].destination
RelevantPeer ==
    IF last.owner # None THEN last.owner
    ELSE IF last.identifier[1] = 0 THEN Some(last.identifier[2])
    ELSE None

\* C15: with the relevant peer c of an object its Owner value if present,
\* else the id of its identifier when the identifier type is 0, else none: a
\* server-to-owner group is written only to recipient c and a
\* server-to-observer group to every recipient except c; without a relevant
\* peer the observer group is written to every recipient and the owner group
\* to none; a server-to-all group is written to every recipient.
C15_SendRules ==
    LastIsRule =>
      \A i \in DOMAIN Unwrap(taken).taken :
         CASE last.method = "ServerToAll" -> Reached(i)
           [] last.method = "ServerToOwner" ->
                Reached(i) <=> (RelevantPeer # None
                                /\ RecipientAt(i) = IdentityClient(Unwrap(RelevantPeer)))
           [] last.method = "ServerToObserver" ->
                Reached(i) <=> (RelevantPeer = None
                                \/ RecipientAt(i) # IdentityClient(Unwrap(RelevantPeer)))

\* C15 witness: an observer group of an object whose identifier names client
\* 1 and whose Owner is client 2 went to client 1 and not to client 2.
C15_Witness ==
    /\ LastIsRule
    /\ last.method = "ServerToObserver"
    /\ last.owner = Some(2) /\ last.identifier = <<0, 1>>
    /\ \E i, j \in DOMAIN Unwrap(taken).taken :
          /\ RecipientAt(i) = IdentityClient(1) /\ Reached(i)
          /\ RecipientAt(j) = IdentityClient(2) /\ ~Reached(j)


\* ============================================================== generate_ids

\* The types an application registers: a few by hand, of which the first two
\* have the same type path, and a block of BulkCount generated ones.  A path
\* is kept as its rank in the order of the paths.
U8Wrap == 256
SmallTypes == 1..MaxTypes
BulkTypes == {100 + k : k \in 1..BulkCount}
PathOf(t) == IF t = 1 THEN 2 ELSE t
HasBulk(reg) == \E t \in DOMAIN reg.bundles : t \in BulkTypes
NTypes(reg) == Cardinality(DOMAIN reg.bundles) + Cardinality(DOMAIN reg.events)

\* The orders in which a HashMap may iterate over the keys in S: every
\* order of a small map, two orders of a large one.
Orders(S) ==
    LET n == Cardinality(S)
        small == S \cap SmallTypes
        m == Cardinality(small)
        up == [k \in 1..n |->
                 IF k <= m THEN CHOOSE t \in small : Cardinality({u \in small : u < t}) = k - 1
                 ELSE 100 + (k - m)]
    IN  IF S \subseteq SmallTypes
          THEN {f \in [1..n -> S] : \A i, j \in 1..n : f[i] = f[j] => i = j}
          ELSE {up, [k \in 1..n |-> up[n + 1 - k]]}

\* ids handed out in the order of iteration, without the sort
SortedPosition_Unsorted(seq, reg, i) == i

\* sort_by(|a, b| a.path.cmp(b.path)), a stable sort: the position of
\* seq[i] in the sorted vector
SortedPosition(seq, reg, i) ==
    Cardinality({j \in DOMAIN seq :
                   \/ reg[seq[j]].path < reg[seq[i]].path
                   \/ reg[seq[j]].path = reg[seq[i]].path /\ j < i}) + 1

\* generate_ids: "i += 1; ... packet_id = i" over the sorted bundles, then over
\* the sorted events, i a u8.  A build with overflow checks panics at the
\* 256th type, the types before it have their ids; another build wraps.
AssignIds(seq, reg, base, checked) ==
    [t \in DOMAIN reg |->
       LET i == CHOOSE k \in DOMAIN seq : seq[k] = t
           n == base + SortedPosition(seq, reg, i)
       IN  IF checked /\ n >= U8Wrap THEN reg[t]
           ELSE [reg[t] EXCEPT !.packet_id = n % U8Wrap]]

\* generate_ids: Handlers::with_capacity, then an insert for every bundle and
\* every event in the order of iteration; a later insert replaces an earlier
\* one with the same packet id.
InsertHandlers(order_b, order_e, reg) ==
    LET ins == [k \in 1..(Len(order_b) + Len(order_e)) |->
                  IF k <= Len(order_b)
                    THEN <<reg.bundles[order_b[k]].packet_id,
                           HandlerOf("bundle", order_b[k])>>
                    ELSE <<reg.events[order_e[k - Len(order_b)]].packet_id,
                           HandlerOf("event", order_e[k - Len(order_b)])>>]
        ids == {0} \cup {ins[k][1] : k \in DOMAIN ins}
    IN  [id \in ids |->
           LET at == {k \in DOMAIN ins : ins[k][1] = id} IN
           IF at = {} THEN HandleDespawnsFn
           ELSE ins[CHOOSE k \in at : \A k2 \in at : k2 <= k][2]]

\* AppNetworkingExt::register_bundle
RegisterBundle ==
    /\ handlers = None /\ ~panicked
    /\ \E t \in SmallTypes \ (DOMAIN registry.bundles \cup DOMAIN registry.events) :
         registry' = [registry EXCEPT
                        !.bundles = (t :> Registered(PathOf(t), 0)) @@ @]
    /\ UNCHANGED <<recvVars, last, sendVars, bufVars, handlers>>

\* AppNetworkingExt::register_event
RegisterEvent ==
    /\ handlers = None /\ ~panicked
    /\ ~HasBulk(registry)
    /\ \E t \in SmallTypes \ (DOMAIN registry.bundles \cup DOMAIN registry.events) :
         registry' = [registry EXCEPT
                        !.events = (t :> Registered(PathOf(t), 0)) @@ @]
    /\ UNCHANGED <<recvVars, last, sendVars, bufVars, handlers>>

\* register_bundle for every type of the generated block
RegisterBulk ==
    /\ handlers = None /\ ~panicked
    /\ ~HasBulk(registry)
    /\ registry.events = << >>
    /\ registry' = [registry EXCEPT
                      !.bundles = [t \in BulkTypes |-> Registered(t, 0)] @@ @]
    /\ UNCHANGED <<recvVars, last, sendVars, bufVars, handlers>>

\* generate_ids, at startup
GenerateIds ==
    /\ handlers = None /\ ~panicked
    /\ \E order_b \in Orders(DOMAIN registry.bundles),
          order_e \in Orders(DOMAIN registry.events),
          checked \in BOOLEAN :
         LET bundles == AssignIds(order_b, registry.bundles, 0, checked)
             events == AssignIds(order_e, registry.events, Len(order_b), checked)
             reg == [bundles |-> bundles, events |-> events]
         IN  /\ registry' = reg
             /\ IF checked /\ NTypes(registry) >= U8Wrap
                  THEN panicked' = TRUE /\ handlers' = None
                  ELSE /\ panicked' = FALSE
                       /\ handlers' = Some(InsertHandlers(order_b, order_e, reg))
    /\ UNCHANGED <<our_ident, net_events, net, world, from_id, to_id, last, sendVars, bufVars>>

RegInit ==
    /\ RecvIdle(IdentityServer, Identifiers)
    /\ SendIdle
    /\ BuffersIdle
    /\ registry = [bundles |-> << >>, events |-> << >>]
    /\ handlers = None

RegNext == RegisterBundle \/ RegisterEvent \/ RegisterBulk \/ GenerateIds

RegSpec == RegInit /\ [][RegNext]_vars


\* What generate_ids left: the registered types, their paths and ids.
Generated == handlers # None
RegTypes == DOMAIN registry.bundles \cup DOMAIN registry.events
RegOf(t) == IF t \in DOMAIN registry.bundles THEN registry.bundles[t]
            ELSE registry.events[t]
DistinctNames ==
    \A t, u \in RegTypes : RegOf(t).path = RegOf(u).path => t = u
NameRank(S, t) == Cardinality({u \in S : RegOf(u).path < RegOf(t).path}) + 1
DistinctIds ==
    \A t, u \in RegTypes : RegOf(t).packet_id = RegOf(u).packet_id => t = u

C17_NoZeroNoCollision ==
    /\ Generated =>
         /\ \A t \in RegTypes : RegOf(t).packet_id # 0
         /\ DistinctIds
         /\ Unwrap(handlers)[0] = HandleDespawnsFn
    /\ NTypes(registry) >= U8Wrap => ~Generated

\* ------------------------------------------------ the bytes of a packet ---
\* Handlers::process reads a packet through a std::io::Cursor: the tick, then
\* one id byte per message, each followed by what its handler deserializes.

\* the most bytes of a processed packet
MaxPacketBytes == 18

\* A cursor over the bytes of a packet; pos counts the bytes consumed.
Cursor(bytes) == [bytes |-> bytes, pos |-> 0]
Remaining(c) == Len(c.bytes) - c.pos

\* Read::read_exact on a Cursor: n bytes, or an error when fewer remain.  On
\* the error the standard library either leaves the position where it was or
\* moves it to the end of the bytes, depending on its version (eof_jump).
ReadExact(c, n, eof_jump) ==
    IF Remaining(c) >= n
    THEN [ok |-> TRUE, val |-> SubSeq(c.bytes, c.pos + 1, c.pos + n),
          cur |-> [c EXCEPT !.pos = c.pos + n]]
    ELSE [ok |-> FALSE, val |-> << >>,
          cur |-> IF eof_jump THEN [c EXCEPT !.pos = Len(c.bytes)] ELSE c]

\* u32::from_le_bytes
FromLeBytes(b) == b[1] + 256 * b[2] + 65536 * b[3] + 16777216 * b[4]

\* Identifier on the wire: the kind as one byte and the id as a u32
SerializeIdentifier(identifier) == <<identifier[1]>> \o ToLeBytes(identifier[2])
DeserializeIdentifier(c, eof_jump) ==
    LET k == ReadExact(c, 1, eof_jump) IN
    IF ~k.ok THEN [ok |-> FALSE, val |-> <<0, 0>>, cur |-> k.cur]
    ELSE LET i == ReadExact(k.cur, 4, eof_jump) IN
         IF ~i.ok THEN [ok |-> FALSE, val |-> <<0, 0>>, cur |-> i.cur]
         ELSE [ok |-> TRUE, val |-> <<k.val[1], FromLeBytes(i.val)>>, cur |-> i.cur]

\* What a handler leaves behind: the state and the cursor.
Handled(st, c) == [st |-> st, cur |-> c]

\* handle_despawns on the cursor
HandleDespawnsBytes(st, ident, tick, c, eof_jump) ==
    LET d == DeserializeIdentifier(c, eof_jump) IN
    IF ~d.ok THEN Handled(st, d.cur)
    ELSE Handled(HandleDespawns(st, ident, tick, d.val), d.cur)

\* The generated apply_changes of bundle b on the cursor: the identifier is
\* read and looked up first, and a tombstoned identifier returns before the
\* components are read.
ApplyChangesBytes(st, ident, tick, b, c, eof_jump) ==
    LET d == DeserializeIdentifier(c, eof_jump) IN
    IF ~d.ok THEN Handled(st, d.cur)
    ELSE
    LET got == MapGet(st.from_id, d.val, tick) IN
    IF got.ok /\ got.status[1] = "Despawned" THEN Handled(st, d.cur)
    ELSE
    LET v == ReadExact(d.cur, 1, eof_jump) IN
    IF ~v.ok THEN Handled(st, v.cur)
    ELSE Handled(ApplyChanges(st, ident, tick, d.val, b, v.val[1]), v.cur)

\* Calling the handler stored under an id
CallHandler(handler, st, ident, tick, c, eof_jump) ==
    IF handler = HandleDespawnsFn
    THEN HandleDespawnsBytes(st, ident, tick, c, eof_jump)
    ELSE ApplyChangesBytes(st, ident, tick, handler[2], c, eof_jump)

\* The outcome of Handlers::process: the state, why and where the loop ended,
\* the handlers called, and whether every call consumed a byte.
Outcome(st, stop, pos, calls, progress) ==
    [st |-> st, stop |-> stop, pos |-> pos, calls |-> calls, progress |-> progress]

RECURSIVE ProcessLoop_SkipsUnknown(_, _, _, _, _, _, _, _)
RECURSIVE ProcessLoop(_, _, _, _, _, _, _, _)

\* A loop that steps over an id without a handler.
ProcessLoop_SkipsUnknown(hs, st, ident, tick, c, eof_jump, calls, progress) ==
    LET r == ReadExact(c, 1, eof_jump) IN
    IF ~r.ok THEN Outcome(st, "eof", c.pos, calls, progress)
    ELSE IF r.val[1] \notin DOMAIN hs
    THEN ProcessLoop_SkipsUnknown(hs, st, ident, tick, r.cur, eof_jump, calls, progress)
    ELSE
    LET h == CallHandler(hs[r.val[1]], st, ident, tick, r.cur, eof_jump) IN
    IF h.st.panicked THEN Outcome(h.st, "panic", c.pos, calls + 1, progress)
    ELSE ProcessLoop_SkipsUnknown(hs, h.st, ident, tick, h.cur, eof_jump, calls + 1,
                                  progress /\ h.cur.pos > c.pos)

\* The loop of Handlers::process
ProcessLoop(hs, st, ident, tick, c, eof_jump, calls, progress) ==
    LET r == ReadExact(c, 1, eof_jump) IN
    IF ~r.ok THEN Outcome(st, "eof", c.pos, calls, progress)
    ELSE IF r.val[1] \notin DOMAIN hs THEN Outcome(st, "unknown", c.pos, calls, progress)
    ELSE
    LET h == CallHandler(hs[r.val[1]], st, ident, tick, r.cur, eof_jump) IN
    \* a panic of a handler ends the process, not only the loop
    IF h.st.panicked THEN Outcome(h.st, "panic", c.pos, calls + 1, progress)
    ELSE ProcessLoop(hs, h.st, ident, tick, h.cur, eof_jump, calls + 1,
                     progress /\ h.cur.pos > c.pos)

\* Handlers::process
Process(hs, st, ident, bytes, eof_jump) ==
    LET t == ReadExact(Cursor(bytes), 4, eof_jump) IN
    IF ~t.ok THEN Outcome(st, "short", 0, 0, TRUE)
    ELSE ProcessLoop(hs, st, ident, FromLeBytes(t.val), t.cur, eof_jump, 0, TRUE)

\* ------------------------------------------------- packets as they arrive
\* The messages a sender writes (despawn.rs send_despawns, the generated
\* send_changes): the id of the handler, the identifier, the components.
DespawnPacketMessage(identifier) == <<0>> \o SerializeIdentifier(identifier)
GroupPacketMessage(b, identifier, val) ==
    <<registry.bundles[b].packet_id>> \o SerializeIdentifier(identifier) \o <<val>>
\* an id no handler is stored under, with bytes behind it
UnknownId == 3
UnknownMessage == <<UnknownId>> \o SerializeIdentifier(<<1, 1>>) \o <<1>>

\* the component bytes of the packets processed
PacketValues == {0, 1}

PacketMessages ==
    {DespawnPacketMessage(identifier) : identifier \in SendIdentifiers}
    \cup {GroupPacketMessage("A", identifier, val) :
             identifier \in SendIdentifiers, val \in PacketValues}
    \cup {GroupPacketMessage("B", <<1, 1>>, 1), UnknownMessage}

RECURSIVE Concat(_)
Concat(msgs) == IF msgs = << >> THEN << >> ELSE Head(msgs) \o Concat(Tail(msgs))

PacketBodies ==
    {msgs \in UNION {[1..n -> PacketMessages] :
                        n \in 1..(MaxPacketBytes \div DespawnMessageBytes)} :
        4 + Len(Concat(msgs)) <= MaxPacketBytes}

\* The ticks of the packets processed: the latest two.
PacketTicks == {t \in Ticks : t + 1 >= MaxTick}

\* Where a packet is cut: nowhere, inside its last message, or, a packet of
\* one message, inside or right after its tick.
Cuts(msgs) ==
    LET n == 4 + Len(Concat(msgs)) IN
    {cut \in 0..n : \/ cut > n - Len(msgs[Len(msgs)])
                     \/ Len(msgs) = 1}

\* The objects a packet from the server can create at most: one for every
\* seven bytes from its first message that is not a despawn message.
RECURSIVE SpawnsAtMost(_)
SpawnsAtMost(msgs) ==
    IF msgs = << >> THEN 0
    ELSE IF Head(msgs)[1] = 0 THEN SpawnsAtMost(Tail(msgs))
    ELSE Len(Concat(msgs)) \div EntityOverhead

FreeEntities(st) == Cardinality(Entities \ UsedEntities(st))

\* The application spawns an identified object, as a child of an object that
\* exists or on its own (spawn_with_id, BuildWorldChildren::set_parent).
DispatchSpawn ==
    /\ ~panicked
    /\ last.kind = "init"
    /\ \E identifier \in SendIdentifiers, authority \in {None, Some(AuthorityFree)},
          parent \in {None} \cup {Some(e) : e \in DOMAIN world} :
         /\ StatusKind(from_id[identifier]) \in {"None", "Despawned"}
         /\ CanSpawn(Current)
         /\ LET e == NewEntity(Current)
                st == SpawnWithId(Current, identifier, authority)
            IN SetState([st EXCEPT !.world[e].parent = parent])
    /\ UNCHANGED <<regVars, our_ident, net_events, net, last, sendVars, bufVars>>

\* A packet of one whole despawn message arrives and is processed.
ProcessDespawnPacket ==
    /\ ~panicked
    /\ last.kind = "init"
    /\ handlers # None
    /\ \E ident \in Senders, t \in PacketTicks, identifier \in SendIdentifiers,
          eof_jump \in BOOLEAN :
         SetState(Process(Unwrap(handlers), Current, ident,
                          ToLeBytes(t) \o DespawnPacketMessage(identifier), eof_jump).st)
    /\ UNCHANGED <<regVars, our_ident, net_events, net, last, sendVars, bufVars>>

\* Any packet arrives, whole or cut short, and is processed
\* (NetImpl::receive_messages handing the bytes to Handlers::process).
ProcessPacket ==
    /\ ~panicked
    /\ last.kind = "init"
    /\ handlers # None
    /\ \E ident \in Senders, t \in PacketTicks, msgs \in PacketBodies,
          eof_jump \in BOOLEAN :
         LET whole == ToLeBytes(t) \o Concat(msgs) IN
         \E cut \in Cuts(msgs) :
           LET bytes == SubSeq(whole, 1, cut)
               out == Process(Unwrap(handlers), Current, ident, bytes, eof_jump)
           IN
           /\ ident = IdentityServer => FreeEntities(Current) >= SpawnsAtMost(msgs)
           /\ SetState(out.st)
           /\ last' = [kind |-> "process", ident |-> ident, bytes |-> bytes,
                       before |-> Current, stop |-> out.stop, pos |-> out.pos,
                       calls |-> out.calls, progress |-> out.progress]
    /\ UNCHANGED <<regVars, our_ident, net_events, net, sendVars, bufVars>>

\* IdentifierMap::reserve: a new handle is bound to the identifier; the
\* object itself is spawned later (spawn_reserved).
MapReserve(st, id) == MapInsert(st, id, NewEntity(st))

\* IdentifierManager::Full get_alive: the handle of an identifier that is
\* Alive, and a reserved one for any other identifier.
ManagerGetAlive(st, id) ==
    IF id \in DOMAIN st.from_id /\ StatusKind(st.from_id[id]) = "Alive"
    THEN st
    ELSE MapReserve(st, id)

\* The reader of an event about an identifier (NetworkedEvent::read of the
\* events of tests/events.rs): the identifier is resolved by get_alive.
HandleEvent(st, about) == ManagerGetAlive(st, about)

\* World::send_event of handle_event: the event read is appended to the
\* events of its type, with its sender, the tick of its packet and the handle
\* its identifier resolved to in st.
SendEvent(evs, st, ident, tick, about) ==
    Append(evs, [sender |-> ident, tick |-> tick, about |-> st.from_id[about][2]])

\* A packet of one event about an identifier arrives and is processed.
ReceiveEvent ==
    /\ ~panicked
    /\ last.kind = "init"
    /\ \E ident \in Senders, t \in PacketTicks, about \in SendIdentifiers :
         /\ CanSpawn(Current)
         /\ SetState(HandleEvent(Current, about))
         /\ net_events' = SendEvent(net_events, HandleEvent(Current, about), ident, t, about)
         /\ last' = [kind |-> "event", ident |-> ident, tick |-> t, about |-> about,
                     before |-> Current]
    /\ UNCHANGED <<regVars, our_ident, net, sendVars, bufVars>>

DispatchInit ==
    /\ \E ident \in {IdentityServer, IdentityClient(1)} : RecvIdle(ident, SendIdentifiers)
    /\ SendIdle
    /\ BuffersIdle
    /\ RegIdle

DispatchNext == DispatchSpawn \/ ProcessDespawnPacket \/ ProcessPacket \/ ReceiveEvent

DispatchSpec == DispatchInit /\ [][DispatchNext]_vars

LastIsProcess == last.kind = "process"
LastIsEvent == last.kind = "event"

\* ------------------------------------------- an id without a handler ---

\* What the last packet was: its tick, and whether what follows the tick
\* starts with the given bytes and goes on with an id no handler is stored
\* under, at least one byte behind it.
LastTick == FromLeBytes(SubSeq(last.bytes, 1, 4))
LastStartsWith(msg) ==
    /\ Len(last.bytes) > 4 + Len(msg) + 1
    /\ SubSeq(last.bytes, 5, 4 + Len(msg)) = msg
    /\ last.bytes[4 + Len(msg) + 1] \notin DOMAIN Unwrap(handlers)

\* a group message that is read whole: its identifier has no tombstone that
\* ends the handler before the components
ReadWhole(st, identifier, tick) ==
    LET got == MapGet(st.from_id, identifier, tick) IN
    ~(got.ok /\ got.status[1] = "Despawned")

\* A whole packet of one message has the effect of the message on st.
HandledNormally(st) ==
    \A ident \in Senders, t \in PacketTicks, identifier \in SendIdentifiers,
       eof_jump \in BOOLEAN :
       /\ Process(Unwrap(handlers), st, ident,
                  ToLeBytes(t) \o DespawnPacketMessage(identifier), eof_jump).st
          = HandleDespawns(st, ident, t, identifier)
       /\ (ident = IdentityServer => CanSpawn(st))
          => \A val \in PacketValues :
               Process(Unwrap(handlers), st, ident,
                       ToLeBytes(t) \o GroupPacketMessage("A", identifier, val),
                       eof_jump).st
               = ApplyChanges(st, ident, t, identifier, "A", val)

\* C18: when the dispatcher reads an id no handler is stored under, the
\* state is the one the messages before the id produced (nothing when the id
\* comes first, the effect of the despawn or group message in front of it
\* otherwise, and in general what the bytes before the id produce on their
\* own), whatever bytes follow the id, and the packets processed afterwards
\* have the effect of their messages.
C18_UnknownIdStops ==
    LastIsProcess =>
      /\ LastStartsWith(<< >>) => Current = last.before
      /\ \A identifier \in SendIdentifiers :
           /\ LastStartsWith(DespawnPacketMessage(identifier))
              => Current = HandleDespawns(last.before, last.ident, LastTick, identifier)
           /\ \A val \in PacketValues :
                (/\ LastStartsWith(GroupPacketMessage("A", identifier, val))
                 /\ ReadWhole(last.before, identifier, LastTick))
                => Current = ApplyChanges(last.before, last.ident, LastTick,
                                          identifier, "A", val)
      /\ last.stop = "unknown" =>
           /\ \A eof_jump \in BOOLEAN :
                Current = Process(Unwrap(handlers), last.before, last.ident,
                                  SubSeq(last.bytes, 1, last.pos), eof_jump).st
           /\ HandledNormally(Current)

\* the dispatcher stopped at an unknown id after a message that changed the
\* state, with bytes behind the id
C18_Witness ==
    /\ LastIsProcess
    /\ last.stop = "unknown"
    /\ Current # last.before
    /\ last.pos + 1 < Len(last.bytes)
    /\ \E identifier \in SendIdentifiers :
         LastStartsWith(DespawnPacketMessage(identifier))

\* ------------------------------------------------ any bytes as a packet ---

\* the last packet is its tick and the first cut bytes of a message, at
\* least the id and not all of them
LastIsCutIn(front, msg) ==
    \E cut \in 1..(Len(msg) - 1) :
       last.bytes = SubSeq(last.bytes, 1, 4) \o front \o SubSeq(msg, 1, cut)

\* Nothing of a message cut short is applied: alone in its packet it leaves
\* the state as it was, behind a despawn message it leaves the effect of
\* the despawn message.
CutAppliesNothing ==
    \A msg \in PacketMessages :
       Len(last.bytes) >= 4 =>
         /\ LastIsCutIn(<< >>, msg) => Current = last.before
         /\ \A identifier \in SendIdentifiers :
              LastIsCutIn(DespawnPacketMessage(identifier), msg)
              => Current = HandleDespawns(last.before, last.ident, LastTick, identifier)

\* C19: processing any bytes as a packet ends without a panic; bytes shorter
\* than the tick change nothing, a message cut short applies nothing, and
\* every call of a handler by the loop consumes at least one byte.
C19_NoCrash ==
    LastIsProcess =>
      /\ ~panicked
      /\ Len(last.bytes) < 4 => (Current = last.before /\ last.calls = 0)
      /\ CutAppliesNothing
      /\ last.progress

\* The parts of C19 that do not depend on the panic.
C19_ShortCutProgress ==
    LastIsProcess =>
      /\ Len(last.bytes) < 4 => (Current = last.before /\ last.calls = 0)
      /\ ~panicked => CutAppliesNothing
      /\ last.progress

\* ------------------------------------------- identifiers not known yet ---

\* an identifier the map had no entry for, Alive or tombstoned
UnknownBefore(id) ==
    id \notin DOMAIN last.before.from_id \/ last.before.from_id[id] = None
IsAliveNow(id) == id \in DOMAIN from_id /\ StatusKind(from_id[id]) = "Alive"

\* Processing created nothing: the identifiers unknown before have no entry
\* and the world holds no object it did not hold.
CreatedNothing ==
    /\ \A id \in DOMAIN from_id : UnknownBefore(id) => from_id[id] = None
    /\ DOMAIN world \subseteq DOMAIN last.before.world
    /\ DOMAIN to_id \subseteq DOMAIN last.before.to_id

\* C20: an identifier unknown to the receiver is Alive after a packet only
\* when the server sent the packet, and a packet of a client, group messages,
\* despawn messages or an event, leaves no entry and no object for it.
C20_OnlyServerCreates ==
    (LastIsProcess \/ LastIsEvent) =>
      /\ \A id \in DOMAIN from_id :
           (UnknownBefore(id) /\ IsAliveNow(id)) => last.ident = IdentityServer
      /\ last.ident[1] = "Client" => CreatedNothing

\* The same for the packets of group and despawn messages only.
C20_GroupsOnlyServerCreates ==
    LastIsProcess =>
      /\ \A id \in DOMAIN from_id :
           (UnknownBefore(id) /\ IsAliveNow(id)) => last.ident = IdentityServer
      /\ last.ident[1] = "Client" => CreatedNothing

\* ------------------------------------- many messages of one size ---------
\* A full broadcast to one new recipient: iterate_world writes one message
\* per object, each of the same size, and calls fragment() after each;
\* send_buffers drains what the cycle left.

\* tests/many_entities.rs: 25000 objects of 9 bytes make 204 packets
ManyObjects == 25000
ObjectBytes == 9
ManyPackets == 204

\* the packets' worth of messages one cycle writes at most
MaxEqualPackets == 2

\* the sizes of the messages of a cycle
EqualSizes == {25, 50, 100, 390, 500, 551, 598, 600}

\* k = floor(THRESHOLD / s) + 1
PerPacket(s) == (THRESHOLD \div s) + 1
CeilDiv(n, k) == (n + k - 1) \div k

\* Buffers::take for the one recipient, which has no baseline yet.
EqualTake ==
    /\ taken = None
    /\ last.kind = "init"
    /\ \E s \in EqualSizes :
         LET r == Take(current, Tick, EntityChannel, change_tick,
                       <<<<IdentityClient(1), RecipientData(None)>>>>) IN
         /\ taken' = Some(r.handle)
         /\ current' = r.current
         /\ last' = [kind |-> "equal", size |-> s, n |-> 0]
    /\ UNCHANGED <<regVars, our_ident, net_events, net,
                   world, from_id, to_id, panicked, sendVars, Tick,
                   filled, pending, written, sent>>

\* The body of the loop of iterate_world for one object: overhead(7), the
\* bytes of the message, fragment().
EqualMessage ==
    /\ taken # None
    /\ last.kind = "equal"
    /\ written < MaxEqualPackets * PerPacket(last.size) + 1
    /\ LET h == Send(Overhead(Unwrap(taken), EntityOverhead), SendRuleAll,
                     <<Part(MsgTag, last.size)>>)
           r == Fragment(h, filled)
       IN  /\ taken' = Some(r.handle)
           /\ filled' = r.filled
    /\ written' = written + 1
    /\ UNCHANGED <<regVars, recvVars, last, sendVars, Tick, current, pending, sent>>

\* The handle goes out of scope and send_buffers drains the buffers.
EqualSendBuffers ==
    /\ taken # None
    /\ last.kind = "equal"
    /\ written > 0
    /\ LET r == Drain(Drop(Unwrap(taken), current), filled, Tick) IN
         /\ sent' = Some(r.packets)
         /\ current' = r.current
         /\ filled' = r.filled
    /\ taken' = None
    /\ last' = [last EXCEPT !.kind = "handed", !.n = written]
    /\ UNCHANGED <<regVars, our_ident, net_events, net,
                   world, from_id, to_id, panicked, sendVars, Tick,
                   pending, written>>

EqualNext == EqualTake \/ EqualMessage \/ EqualSendBuffers

EqualSpec == FragInit /\ [][EqualNext]_vars

\* the packets handed to the transport
NPackets(p) == Cardinality(p.current) + Len(p.filled)
LastIsHanded == last.kind = "handed"

\* C21: N messages of s bytes each, written to one new recipient in one
\* cycle, s such that k messages stay below the cap, are handed to the
\* transport as ceil(N / k) packets with k = floor(THRESHOLD / s) + 1, the
\* count depending on N and s alone; for 25000 objects of 9 bytes it is 204.
C21_PacketCount ==
    /\ CeilDiv(ManyObjects, PerPacket(ObjectBytes)) = ManyPackets
    /\ (LastIsHanded /\ PerPacket(last.size) * last.size < CAP)
       => NPackets(Unwrap(sent)) = CeilDiv(last.n, PerPacket(last.size))

\* messages of 50 bytes, which divide the threshold, filled two packets and
\* left one more to drain
C21_Witness ==
    /\ LastIsHanded
    /\ last.size = 50
    /\ last.n > MaxEqualPackets * PerPacket(last.size)
    /\ NPackets(Unwrap(sent)) = MaxEqualPackets + 1
    /\ Len(Unwrap(sent).filled) = MaxEqualPackets

\* -------------------------------------------- lookups in the map ---------
\* IdentifierMap used on its own: insert, despawn, get and is_alive.

\* IdentifierMap::is_alive
MapIsAlive(f, id, tick) ==
    LET status == IF id \in DOMAIN f THEN f[id] ELSE None IN
    IF StatusKind(status) = "Despawned" /\ status[2] < tick
      THEN FALSE
      ELSE status # None

\* the identifiers looked up: those the map may hold and one it never holds
LookupIdentifiers == SendIdentifiers \cup {<<1, 2>>}

\* IdentifierMap::insert of a new handle
LookupInsert ==
    /\ \E id \in SendIdentifiers :
         /\ StatusKind(from_id[id]) # "Alive"
         /\ CanSpawn(Current)
         /\ SetState(MapInsert(Current, id, NewEntity(Current)))
    /\ UNCHANGED <<regVars, our_ident, net_events, net, last, sendVars, bufVars>>

\* IdentifierMap::despawn at a tick
LookupDespawn ==
    /\ \E id \in SendIdentifiers, t \in Ticks :
         /\ StatusKind(from_id[id]) = "Alive"
         /\ SetState(MapDespawn(Current, id, from_id[id][2], t))
    /\ UNCHANGED <<regVars, our_ident, net_events, net, last, sendVars, bufVars>>

\* IdentifierMap::get and is_alive for an identifier at a tick
Lookup ==
    /\ \E id \in LookupIdentifiers, t \in Ticks :
         last' = [kind |-> "get", id |-> id, tick |-> t, map |-> from_id,
                  got |-> MapGet(from_id, id, t),
                  alive |-> MapIsAlive(from_id, id, t)]
    /\ UNCHANGED <<regVars, recvVars, sendVars, bufVars>>

LookupInit ==
    /\ RecvIdle(IdentityServer, SendIdentifiers)
    /\ SendIdle
    /\ BuffersIdle
    /\ RegIdle

LookupNext == LookupInsert \/ LookupDespawn \/ Lookup

LookupSpec == LookupInit /\ [][LookupNext]_vars

LastIsGet == last.kind = "get"
\* the entry of the identifier looked up last, None when the map had none
LastEntry == IF last.id \in DOMAIN last.map THEN last.map[last.id] ELSE None

\* C25: for an identifier with the tombstone Despawned(t), get at a tick
\* returns the Despawned error exactly when t < tick; at a tick <= t it
\* returns no error and is_alive holds.  For an identifier the map has no
\* entry for, get returns the NonExistent error at every tick.
C25_TombstoneLookup ==
    LastIsGet =>
      /\ StatusKind(LastEntry) = "Despawned" =>
           /\ (last.got.err = "Despawned") <=> (LastEntry[2] < last.tick)
           /\ last.tick <= LastEntry[2] => (last.got.ok /\ last.alive)
           /\ LastEntry[2] < last.tick => (~last.got.ok /\ ~last.alive)
      /\ LastEntry = None =>
           (~last.got.ok /\ last.got.err = "NonExistent" /\ ~last.alive)

\* a tombstone looked up at its own tick, without an error
C25_Witness ==
    /\ LastIsGet
    /\ StatusKind(LastEntry) = "Despawned"
    /\ LastEntry[2] = last.tick
    /\ last.tick > 0
    /\ last.got.ok

\* ------------------------------------------- what a client may write ------

\* The cycle wrote bytes of the object with the identifier, framing or
\* group, to the buffer of the connection.
WroteFor(dest, identifier) ==
    \/ HasPart(dest, EntityChannel, <<"entity", identifier, "">>)
    \/ HasPart(dest, EntityChannel, <<"end", identifier, "">>)
    \/ \E b \in Bundles : HasPart(dest, EntityChannel, <<"group", identifier, b>>)

OursOrFree(c) ==
    c.authority \in {Some(AuthorityFree), Some(AuthorityClient(our_ident[2]))}

\* C24: a send cycle of a client writes bytes of an object only when the
\* authority of the object is Free or Client(self); an object with the
\* authority Server or Client(other), or without an authority value, has no
\* bytes in any buffer of the client.
C24_ClientWritesOwnOrFree ==
    (LastIsCycle /\ our_ident[1] = "Client") =>
      \A e \in DOMAIN world, dest \in DOMAIN connections :
         (world[e].identifier # None /\ WroteFor(dest, Unwrap(world[e].identifier)))
           => OursOrFree(world[e])

\* a cycle of a client wrote the group of a Free object and nothing of an
\* object without an authority value
C24_Witness ==
    /\ LastIsCycle
    /\ our_ident[1] = "Client"
    /\ \E e1, e2 \in DOMAIN world, dest \in DOMAIN connections :
          /\ world[e1].authority = Some(AuthorityFree)
          /\ HasGroup(dest, e1, "A")
          /\ world[e2].authority = None
          /\ world[e2].identifier # None
          /\ HasBundle(world[e2], "A")
          /\ ~WroteFor(dest, Unwrap(world[e2].identifier))

\* ------------------------------------------- the held-authority set ------

LastIsTrackAuthority == last.kind = "track_authority"

\* C29: on a client, when track_authority has run, HeldAuthority holds
\* exactly the objects whose authority is Client(self); an object that is
\* Free, Server or Client(other), or whose Authority was removed, is not in
\* the set.
C29_HeldIsOwn ==
    (LastIsTrackAuthority /\ our_ident[1] = "Client") =>
      held = {e \in DOMAIN world :
                world[e].authority = Some(AuthorityClient(our_ident[2]))}

\* The same with the objects this client can claim, Free included.
C29_HeldIsClaimable ==
    (LastIsTrackAuthority /\ our_ident[1] = "Client") =>
      held = {e \in DOMAIN world :
                /\ world[e].authority # None
                /\ CanClaim(Unwrap(world[e].authority), our_ident[2])}

\* ------------------------------------------- a frame: receive, then send --
\* One frame of a process: the application and the receive path run in the
\* update phase, then the send phase runs send_despawns, track_authority,
\* iterate_world and send_buffers in this order.

\* A packet of one group message of bundle A arrives and is applied; the
\* components the handler inserts count as changed at the current tick.
FrameReceive ==
    /\ phase = "update"
    /\ cycles < MaxCycles
    /\ ~panicked
    /\ \E ident \in Senders, t \in PacketTicks, identifier \in SendIdentifiers,
          val \in SendWrites :
         /\ ident = IdentityServer =>
              (CanSpawn(Current) /\ NewEntity(Current) \notin SendUsedEntities)
         /\ LET st == ApplyChanges(Current, ident, t, identifier, "A", val) IN
            /\ SetState(st)
            /\ changed' = [e \in DOMAIN st.world |->
                             IF e \notin DOMAIN world
                               THEN [b \in Bundles |-> change_tick]
                             ELSE IF st.world[e] # world[e]
                               THEN [changed[e] EXCEPT !["A"] = change_tick]
                             ELSE changed[e]]
            /\ authority_changed' = authority_changed \cup
                 {e \in DOMAIN st.world \cap DOMAIN world :
                    st.world[e].authority # world[e].authority}
         /\ last' = [kind |-> "update", ident |-> ident]
    /\ UNCHANGED <<regVars, our_ident, net_events, net,
                   held, removed_authority, removed_identifier,
                   tracked, connections, phase, change_tick, last_run, cycles, bufVars>>

FrameNext ==
    \/ AppSpawn({[b \in Bundles |-> IF b = "A" THEN Some(1) ELSE None]},
                {None, Some(AuthorityFree)})
    \/ AppDespawn
    \/ FrameReceive
    \/ SendDespawns
    \/ TrackAuthority("iterate_world")
    \/ IterateWorld("iterate_world")
    \/ SendBuffers("update")

FrameSpec == DespawnInit /\ [][FrameNext]_vars

\* a step of the send phase: any step but one that starts and ends in the
\* update phase
SendPhaseStep == phase # "update" \/ phase' # "update"

\* the objects, their authority, their group values and their last-update
\* ticks are after the step what they were before it
ObjectsKept == world' = world

\* a last-update tick of an object is not after the step what it was before
TickChanged ==
    \E e \in DOMAIN world' :
       IF e \in DOMAIN world
         THEN \/ world'[e].last_bundle # world[e].last_bundle
              \/ world'[e].last_entity # world[e].last_entity
         ELSE \/ world'[e].last_entity # None
              \/ \E b \in Bundles : world'[e].last_bundle[b] # None

\* C28: no step of the send phase (send_despawns, track_authority,
\* iterate_world, send_buffers) changes a last-update tick, an authority
\* value or a group value of an object, and a last-update tick changes only
\* in a step that applies a received message.
C28_SendPhaseFrame ==
    [][/\ SendPhaseStep => ObjectsKept
       /\ TickChanged => last'.kind = "update"]_vars

\* a frame in which a received message set a last-update tick and the send
\* phase then ran through send_buffers with the object in the world
C28_Witness ==
    /\ last.kind = "send_buffers"
    /\ cycles > 0
    /\ \E e \in DOMAIN world :
          /\ world[e].last_entity # None
          /\ \E dest \in DOMAIN connections :
                Handed(dest, <<"group", Unwrap(world[e].identifier), "A">>)

\* ------------------------------------------- the low-water mark ----------

\* the packets fragment() pushed to Buffers.filled in the step, for the
\* recipient of the k-th taken buffer
EmittedFor(k) ==
    {i \in DOMAIN filled' :
       /\ i > Len(filled)
       /\ filled'[i].key = BufferKey(Unwrap(taken).taken[k].destination,
                                     Unwrap(taken).channel)}

\* C30: fragment() after a message emits no packet for a recipient whose
\* buffer holds fewer bytes than THRESHOLD, and at least one packet for a
\* recipient whose buffer holds THRESHOLD bytes or more, also when it holds
\* exactly THRESHOLD bytes.
C30_LowWaterMark ==
    [][(pending /\ ~pending' /\ taken # None /\ taken' # None) =>
         \A k \in DOMAIN Unwrap(taken).taken :
            LET len == BufLen(Unwrap(taken).taken[k].buffer) IN
            /\ len < THRESHOLD => EmittedFor(k) = {}
            /\ len >= THRESHOLD => EmittedFor(k) # {}]_vars

\* The same with the mark exclusive: a packet is emitted when the buffer
\* holds more than THRESHOLD bytes, and none when it holds THRESHOLD or less.
C30_OverMark ==
    [][(pending /\ ~pending' /\ taken # None /\ taken' # None) =>
         \A k \in DOMAIN Unwrap(taken).taken :
            LET len == BufLen(Unwrap(taken).taken[k].buffer) IN
            /\ len <= THRESHOLD => EmittedFor(k) = {}
            /\ len > THRESHOLD => EmittedFor(k) # {}]_vars

\* ------------------------------------- late messages after a tombstone ---

\* The identifiers that were Despawned(t), t above the tick of the last
\* message, before the message was processed.
TombstonedAbove(tick) ==
    {id \in DOMAIN last.before.from_id :
       /\ StatusKind(last.before.from_id[id]) = "Despawned"
       /\ tick < last.before.from_id[id][2]}

\* The identifier keeps the status it had and the world holds no object
\* for it.
TombstoneKept(id) ==
    /\ from_id[id] = last.before.from_id[id]
    /\ \A e \in DOMAIN to_id : to_id[e] # id
    /\ \A e \in DOMAIN world : world[e].identifier # Some(id)

\* C26: an identifier that is Despawned(t) keeps that status, and gets no
\* object, when a message with a tick below t that references it is
\* processed: a group update, a despawn, or an event about it.
C26_TombstoneKept ==
    /\ (LastIsProcess /\ Len(last.bytes) >= 4)
         => \A id \in TombstonedAbove(LastTick) : TombstoneKept(id)
    /\ LastIsEvent
         => (last.about \in TombstonedAbove(last.tick) => TombstoneKept(last.about))

\* The same for the packets of group and despawn messages only.
C26_GroupsKeepTombstone ==
    (LastIsProcess /\ Len(last.bytes) >= 4)
      => \A id \in TombstonedAbove(LastTick) : TombstoneKept(id)

\* a whole group message or despawn message about a tombstoned identifier
\* was processed with a tick below the tombstone's
C26_GroupsReached ==
    /\ LastIsProcess
    /\ Len(last.bytes) >= 4
    /\ \E id \in TombstonedAbove(LastTick) :
         \/ /\ Len(last.bytes) >= 4 + Len(DespawnPacketMessage(id))
            /\ SubSeq(last.bytes, 5, 4 + Len(DespawnPacketMessage(id)))
                 = DespawnPacketMessage(id)
         \/ \E val \in PacketValues :
              /\ Len(last.bytes) >= 4 + Len(GroupPacketMessage("A", id, val))
              /\ SubSeq(last.bytes, 5, 4 + Len(GroupPacketMessage("A", id, val)))
                   = GroupPacketMessage("A", id, val)

\* --------------------------------------------- a packet delivered twice ---

\* fn add_numbers(current: &mut Number, new: Number) of tests/update.rs,
\* Number a u8
AddNumbers(cur, new) == (cur + new) % U8Wrap

\* apply_changes of a bundle whose component has #[networked(update = f)]:
\* where the plain handler overwrites a component the object has, f merges
\* the value received into it.
ApplyChangesUpdateWith(st, ident, tick, identifier, b, val) ==
    LET out == ApplyChanges(st, ident, tick, identifier, b, val)
        got == MapGet(st.from_id, identifier, tick)
    IN
    IF out = st \/ ~got.ok \/ got.status[2] \notin DOMAIN st.world THEN out
    ELSE
    LET e == got.status[2] IN
    IF st.world[e].value[b] = None THEN out
    ELSE [out EXCEPT !.world[e].value[b] =
                        Some(AddNumbers(Unwrap(st.world[e].value[b]), val))]

\* The messages of the packets delivered twice: a group that overwrites, a
\* group that merges, a despawn, an event about an identifier.
GroupMsg(identifier, val) == [kind |-> "group", identifier |-> identifier, val |-> val]
SumMsg(identifier, val) == [kind |-> "sum", identifier |-> identifier, val |-> val]
DespawnMsg(identifier) == [kind |-> "despawn", identifier |-> identifier, val |-> 0]
EventMsg(identifier) == [kind |-> "event", identifier |-> identifier, val |-> 0]

DupMessages ==
    UNION {{GroupMsg(id, 1), SumMsg(id, 1), DespawnMsg(id), EventMsg(id)} :
             id \in SendIdentifiers}
DupBodies ==
    {<<m>> : m \in DupMessages}
    \cup {<<m1, m2>> : m1 \in DupMessages,
                       m2 \in {m \in DupMessages : m.identifier = <<0, 1>>}}

\* One message handled: the receiver's state and the events delivered.
HandleMessage(r, ident, tick, m) ==
    IF r.st.panicked THEN r
    ELSE IF m.kind = "group"
      THEN [r EXCEPT !.st = ApplyChanges(r.st, ident, tick, m.identifier, "A", m.val)]
    ELSE IF m.kind = "sum"
      THEN [r EXCEPT !.st = ApplyChangesUpdateWith(r.st, ident, tick, m.identifier,
                                                   "B", m.val)]
    ELSE IF m.kind = "despawn"
      THEN [r EXCEPT !.st = HandleDespawns(r.st, ident, tick, m.identifier)]
    ELSE LET st == HandleEvent(r.st, m.identifier) IN
         [st |-> st, evs |-> SendEvent(r.evs, st, ident, tick, m.identifier)]

\* Handlers::process on a whole packet: its messages in their order.
RECURSIVE HandleMessages(_, _, _, _)
HandleMessages(r, ident, tick, msgs) ==
    IF msgs = << >> THEN r
    ELSE HandleMessages(HandleMessage(r, ident, tick, Head(msgs)), ident, tick,
                        Tail(msgs))

DupPackets ==
    {[ident |-> ident, tick |-> t, msgs |-> msgs] :
        ident \in Senders, t \in PacketTicks, msgs \in DupBodies}

HasEvent(p) == \E k \in DOMAIN p.msgs : p.msgs[k].kind = "event"

\* A packet is processed (NetImpl::receive_messages, Handlers::process).
Receive(p) ==
    /\ ~panicked
    /\ FreeEntities(Current) >= Len(p.msgs)
    /\ LET r == HandleMessages([st |-> Current, evs |-> net_events],
                               p.ident, p.tick, p.msgs)
       IN  SetState(r.st) /\ net_events' = r.evs
    /\ UNCHANGED <<regVars, our_ident, net, sendVars, bufVars>>

\* an earlier packet arrives
DupEarlier ==
    /\ last.kind = "init"
    /\ \E p \in DupPackets : Receive(p)
    /\ last' = [last EXCEPT !.kind = "earlier"]

\* a packet arrives for the first time
DupFirst ==
    /\ last.kind \in {"init", "earlier"}
    /\ \E p \in DupPackets :
         /\ Receive(p)
         /\ last' = [kind |-> "first", packet |-> p, between |-> FALSE,
                     events_between |-> FALSE,
                     before |-> Current, events_before |-> net_events]

\* another packet arrives after it
DupBetween ==
    /\ last.kind = "first"
    /\ \E p \in DupPackets :
         /\ p # last.packet
         /\ Receive(p)
         /\ last' = [last EXCEPT !.kind = "between", !.between = TRUE,
                                 !.events_between = HasEvent(p)]

\* the transport delivers the first packet a second time
DupAgain ==
    /\ last.kind \in {"first", "between"}
    /\ Receive(last.packet)
    /\ last' = [last EXCEPT !.kind = "again", !.before = Current,
                            !.events_before = net_events]

DupNext == DispatchSpawn \/ DupEarlier \/ DupFirst \/ DupBetween \/ DupAgain

DupSpec == DispatchInit /\ [][DupNext]_vars

LastIsAgain == last.kind = "again"

\* C27: a packet processed a second time, other packets in between or none,
\* changes nothing: the objects with their values, authority and last-update
\* ticks, the identifier statuses, and the events delivered are what they
\* were before the second processing.
C27_DuplicateIdempotent ==
    LastIsAgain => /\ Current = last.before
                   /\ net_events = last.events_before

\* The same for a packet of group messages only that is processed twice in
\* a row.
OnlyGroups(p) == \A k \in DOMAIN p.msgs : p.msgs[k].kind \in {"group", "sum"}
C27_GroupsTwiceInARow ==
    (LastIsAgain /\ OnlyGroups(last.packet) /\ ~last.between)
      => /\ Current = last.before
         /\ net_events = last.events_before

\* The same for a packet of group messages only, packets without events in
\* between.
C27_GroupsIdempotent ==
    (LastIsAgain /\ OnlyGroups(last.packet) /\ ~last.events_between)
      => /\ Current = last.before
         /\ net_events = last.events_before

\* a merging group of an object that held a value was processed twice in a row
C27_GroupsReached ==
    /\ LastIsAgain /\ OnlyGroups(last.packet) /\ ~last.between
    /\ \E k \in DOMAIN last.packet.msgs :
         /\ last.packet.msgs[k].kind = "sum"
         /\ IsAliveNow(last.packet.msgs[k].identifier)
         /\ LET e == from_id[last.packet.msgs[k].identifier][2] IN
            /\ e \in DOMAIN world
            /\ world[e].last_bundle["B"] = Some(last.packet.tick)
            /\ world[e].value["B"] = Some(2)

\* ------------------------------------------------- a packet that is lost ---

\* World::check_change_ticks of the object store: a change tick older than
\* MAX_CHANGE_AGE is moved up to that age, so that the wrapping counter never
\* makes an old change look new.
CheckTick(self, this_run) ==
    IF RelativeTo(this_run, self) > MAX_CHANGE_AGE
      THEN (this_run - MAX_CHANGE_AGE) % TickWrap
      ELSE self
CheckChangeTicks(chgs, this_run) ==
    [e \in DOMAIN chgs |-> [b \in DOMAIN chgs[e] |-> CheckTick(chgs[e][b], this_run)]]

\* What the transport holds: the packets in flight, and, as history, the
\* groups of the packets it lost, by recipient.
InTransit(flight, lost) == Some([flight |-> flight, lost |-> lost])
Flight == IF sent = None THEN {} ELSE Unwrap(sent).flight
LostGroups == IF sent = None THEN {} ELSE Unwrap(sent).lost
PacketsOf(packets) ==
    packets.current \cup {packets.filled[i] : i \in DOMAIN packets.filled}

\* The application acts in the first frames only; the schedule goes on.
Frames(n) == IF n < MaxCycles THEN n + 1 ELSE n

\* iterate_world in a frame of a run without end
LossIterateWorld ==
    /\ phase = "update"
    /\ LET r == IterateWorldBuffers(connections, our_ident, world, changed, current,
                                    filled, Tick, last_run, change_tick)
       IN  /\ current' = r.current
           /\ filled' = r.filled
    /\ last_run' = change_tick
    /\ change_tick' = (change_tick + 1) % TickWrap
    /\ changed' = CheckChangeTicks(changed, (change_tick + 1) % TickWrap)
    /\ cycles' = Frames(cycles)
    /\ phase' = "send_buffers"
    /\ last' = [kind |-> "iterate_world", last_run |-> last_run,
                this_run |-> change_tick]
    /\ UNCHANGED <<regVars, recvVars, held, authority_changed, removed_authority,
                   removed_identifier, tracked, connections, Tick, taken, pending,
                   written, sent>>

\* send_buffers: the packets drained go to the transport
\* (NetImpl::send_messages); what it still held of the frame before is gone.
LossSendBuffers ==
    /\ phase = "send_buffers"
    /\ LET r == Drain(current, filled, Tick) IN
         /\ current' = r.current
         /\ filled' = r.filled
         /\ sent' = InTransit(PacketsOf(r.packets), LostGroups)
         /\ last' = [kind |-> "send_buffers", packets |-> r.packets]
    /\ phase' = "connections"
    /\ UNCHANGED <<regVars, recvVars, held, authority_changed, removed_authority,
                   removed_identifier, tracked, connections, change_tick, last_run,
                   changed, cycles, Tick, taken, pending, written>>

\* The transport delivers a packet.
TransportDeliver ==
    /\ \E p \in Flight : sent' = InTransit(Flight \ {p}, LostGroups)
    /\ UNCHANGED <<regVars, recvVars, last, sendVars, Tick, current, filled, taken,
                   pending, written>>

\* The groups of a packet whose data did not change since the cycle that
\* wrote the packet.
CurrentGroups(p) ==
    {<<p.key[1], p.payload[j].tag[2], p.payload[j].tag[3]>> :
        j \in {i \in DOMAIN p.payload :
                 /\ p.payload[i].tag[1] = "group"
                 /\ StatusKind(from_id[p.payload[i].tag[2]]) = "Alive"
                 /\ ~IsNewerThan(changed[from_id[p.payload[i].tag[2]][2]]
                                        [p.payload[i].tag[3]],
                                 last_run, change_tick)}}

\* The transport loses a packet.
TransportLose ==
    /\ \E p \in Flight :
         /\ CurrentGroups(p) # {}
         /\ sent' = InTransit(Flight \ {p}, LostGroups \cup CurrentGroups(p))
    /\ UNCHANGED <<regVars, recvVars, last, sendVars, Tick, current, filled, taken,
                   pending, written>>

\* The application changes a group as long as nothing was lost: after a loss
\* the value stays what it is.
LossMutate == LostGroups = {} /\ AppMutate

LossInit ==
    /\ RecvIdle(IdentityServer, SendIdentifiers)
    /\ SendIdle
    /\ BuffersIdle
    /\ RegIdle

\* The application spawns one object.
LossSpawn == cycles = 0 /\ world = << >> /\ AppSpawn(SendValues, {None})

\* One peer connects.
LossConnected == cycles = 0 /\ connections = << >> /\ Connected

LossNext ==
    \/ LossSpawn
    \/ LossMutate
    \/ LossConnected
    \/ StartReplication
    \/ LossIterateWorld
    \/ LossSendBuffers
    \/ ConnectionsSeen
    \/ TransportDeliver
    \/ TransportLose

\* The schedule runs the send phase in every frame, and frames do not stop:
\* the update phase of a frame always ends with iterate_world, the one step
\* that starts the send phase, then send_buffers runs, then the connections
\* are updated.
SendPhaseStarts == phase = "update" /\ phase' = "send_buffers"
LossSpec ==
    /\ LossInit
    /\ [][LossNext]_vars
    /\ WF_phase(SendPhaseStarts)
    /\ WF_vars(LossSendBuffers)
    /\ WF_vars(ConnectionsSeen)

\* C22: when the packet with the current value of a group is lost on its way
\* to a recipient and the value does not change again, a later send cycle
\* writes the group to the buffer of the recipient again.
C22_LostIsResent ==
    \A dest \in {IdentityClient(c) : c \in ClientIds}, id \in SendIdentifiers,
       b \in Bundles :
       (<<dest, id, b>> \in LostGroups)
         ~> HasPart(dest, EntityChannel, <<"group", id, b>>)

\* ------------------------------------------ clients claiming one object ---

\* This process is the server; net holds its clients (the engine state of
\* each and the tick it last sent with) and the packets between them.
Network(procs, ticks, wire) == [procs |-> procs, ticks |-> ticks, wire |-> wire]
GroupPacket(from, to, tick, val) == [from |-> from, to |-> to, tick |-> tick, val |-> val]

\* The object every process starts with: spawned with Authority::Free and
\* the group A (spawn_with_id(1, 1, (Authority::Free, Number(1)))).
ClaimIdentifier == <<1, 1>>
ClaimStart ==
    LET st == SpawnWithId(State(<< >>, [id \in SendIdentifiers |-> None], << >>, FALSE),
                          ClaimIdentifier, Some(AuthorityFree))
        e == st.from_id[ClaimIdentifier][2]
    IN  [st EXCEPT !.world[e].value["A"] = Some(1)]

\* The authority a process holds for the object.
AuthorityAt(st) == AuthorityOf(st, ClaimIdentifier)

ClaimInit ==
    /\ our_ident = IdentityServer
    /\ world = ClaimStart.world
    /\ from_id = ClaimStart.from_id
    /\ to_id = ClaimStart.to_id
    /\ panicked = FALSE
    /\ net_events = << >>
    /\ last = Op("init", IdentityServer, 0, <<0, 0>>, "", 0, ClaimStart)
    /\ net = Network([c \in ClientIds |-> ClaimStart], [c \in ClientIds |-> 0], {})
    /\ SendIdle
    /\ BuffersIdle
    /\ RegIdle

\* A frame of a client in which the application writes the group: the send
\* phase writes the group to the server when the client may claim the
\* object (iterate_world), and the packet goes out.
ClientFrame ==
    /\ \E c \in ClientIds, val \in SendWrites :
         LET st == net.procs[c]
             e == st.from_id[ClaimIdentifier][2]
             t == net.ticks[c] + 1
         IN
         /\ t <= MaxTick
         /\ net' = [net EXCEPT
                      !.procs[c].world[e].value["A"] = Some(val),
                      !.ticks[c] = t,
                      !.wire = IF Eligible(IdentityClient(c), st.world[e])
                                 THEN @ \cup {GroupPacket(IdentityClient(c),
                                                          IdentityServer, t, val)}
                                 ELSE @]
    /\ UNCHANGED <<regVars, our_ident, world, from_id, to_id, panicked, net_events,
                   last, sendVars, bufVars>>

\* A frame of the server in which the group is marked changed (an update of
\* a client was applied, or the application touched the component): the send
\* phase writes the group to every client (ServerToAll).
ServerFrame ==
    /\ Tick < MaxTick
    /\ Tick' = Tick + 1
    /\ LET e == from_id[ClaimIdentifier][2] IN
       net' = [net EXCEPT !.wire =
                 @ \cup {GroupPacket(IdentityServer, IdentityClient(c), Tick + 1,
                                     Unwrap(world[e].value["A"])) : c \in ClientIds}]
    /\ UNCHANGED <<regVars, our_ident, world, from_id, to_id, panicked, net_events,
                   last, sendVars, current, filled, taken, pending, written, sent>>

\* The server processes a packet of a client (apply_changes of the group).
ServerReceive ==
    /\ \E p \in net.wire :
         /\ p.to = IdentityServer
         /\ SetState(ApplyChanges(Current, p.from, p.tick, ClaimIdentifier, "A", p.val))
         /\ net' = [net EXCEPT !.wire = @ \ {p}]
    /\ UNCHANGED <<regVars, our_ident, net_events, last, sendVars, bufVars>>

\* A client processes a packet of the server.
ClientReceive ==
    /\ \E p \in net.wire, c \in ClientIds :
         /\ p.to = IdentityClient(c)
         /\ net' = [net EXCEPT
                      !.procs[c] = ApplyChanges(@, p.from, p.tick, ClaimIdentifier,
                                                "A", p.val),
                      !.wire = @ \ {p}]
    /\ UNCHANGED <<regVars, our_ident, world, from_id, to_id, panicked, net_events,
                   last, sendVars, bufVars>>

ClaimNext == ClientFrame \/ ServerFrame \/ ServerReceive \/ ClientReceive

\* The transport delivers every packet; the clients stop writing after
\* MaxTick frames, so the traffic ends.
ClaimSpec ==
    /\ ClaimInit
    /\ [][ClaimNext]_vars
    /\ WF_vars(ServerReceive)
    /\ WF_vars(ClientReceive)

\* The server and the clients hold the same authority for the object.
AuthorityAgreed == \A c \in ClientIds : AuthorityAt(net.procs[c]) = AuthorityAt(Current)

\* C23: after clients claimed the same Free object, the server and all
\* clients eventually agree on who holds authority over it, and keep
\* agreeing: no two of them hold different authority values for ever.
C23_AuthorityConverges == <>[]AuthorityAgreed

\* The traffic ended: no packet is in flight and no client writes again.
Quiescent ==
    /\ net.wire = {}
    /\ \A c \in ClientIds : net.ticks[c] = MaxTick
    /\ Tick = MaxTick

\* The clients that claimed agree with the server at least about who may
\* write: a quiescent server holds Client(c) only for a client c that wrote.
C23_HolderWrote ==
    (net # NoNetwork /\ Quiescent) =>
      \A c \in ClientIds :
         AuthorityAt(Current) = Some(AuthorityClient(c)) => net.ticks[c] > 0

\* Whatever traffic there is, a client's copy of the object keeps the
\* authority it was spawned with: no packet writes it.
C23_ClientKeepsAuthority ==
    net # NoNetwork =>
      \A c \in ClientIds : AuthorityAt(net.procs[c]) = Some(AuthorityFree)

\* ----------------------------------------------- C40: a group without a tick

\* The sender of the update in last may write to the object: the server
\* always, a client when Authority::can_claim lets it.
LastAuthorized ==
    \/ LastFromServer
    \/ /\ LastFromClient
       /\ CanClaim(UnwrapOrDefaultAuthority(AuthorityOf(last.before, last.identifier)),
                   last.ident[2])

\* C40: an existing object's group without a recorded last-update tick
\* behaves as if its last-applied tick were 0: an otherwise authorized
\* update of a packet with tick 0 changes nothing, and one with a tick of 1
\* or more is applied (the group holds the value at that tick).
C40_NoTickIsZero ==
    (/\ LastIsUpdate
     /\ HasObject(last.before, last.identifier)
     /\ GroupTick(last.before, last.identifier, last.b) = None
     /\ LastAuthorized) =>
        /\ last.tick = 0 => Current = last.before
        /\ last.tick >= 1 =>
              Holds(Current, last.identifier, last.b, last.val, last.tick)

\* C40 witness: client 1 sent an update with tick 1 for a group of a Free
\* object that had no recorded tick, and the group holds the value at tick 1.
C40_Witness ==
    /\ LastIsUpdate /\ last.ident = IdentityClient(1) /\ last.tick = 1
    /\ HasObject(last.before, last.identifier)
    /\ GroupTick(last.before, last.identifier, last.b) = None
    /\ AuthorityOf(last.before, last.identifier) = Some(AuthorityFree)
    /\ Holds(Current, last.identifier, last.b, last.val, 1)

\* C40, the dropped half reached: the server sent an update with tick 0 for
\* a group without a recorded tick and nothing changed.
C40_TickZeroDropped ==
    /\ LastIsUpdate /\ LastFromServer /\ last.tick = 0
    /\ HasObject(last.before, last.identifier)
    /\ GroupTick(last.before, last.identifier, last.b) = None
    /\ Current = last.before

\* ------------------------------------- C35: the ticks recorded on an object

\* LastUpdate<()> of entity e is at or above LastUpdate<B> of each group B.
EntityTickDominates(w, e) ==
    \A b \in Bundles :
        UnwrapOrDefaultTick(w[e].last_entity) >= UnwrapOrDefaultTick(w[e].last_bundle[b])

\* The entities that are the same object before and after the step in last:
\* a received message never destroys an object and creates another one in
\* its place, and a spawn takes a handle no object had.
SameObjects == (DOMAIN last.before.world) \cap (DOMAIN world)

LastIsAcceptedClaim ==
    /\ LastIsUpdate /\ LastFromClient
    /\ AuthorityOf(last.before, last.identifier) = Some(AuthorityFree)
    /\ AuthorityOf(Current, last.identifier) = Some(AuthorityClient(last.ident[2]))
    /\ Holds(Current, last.identifier, last.b, last.val, last.tick)

\* C32 (as stated): the authority state of one group of an object is
\* independent of the other groups: after a claim by client P was accepted
\* through group G of a Free object, an update from another client Q on a
\* different group G2 of the same object, with a tick above the last-applied
\* tick of G2, is not rejected: G2 holds Q's value at Q's tick.
C32_GroupsIndependent ==
    [][(/\ LastIsAcceptedClaim
        /\ last'.kind = "update"
        /\ last'.ident[1] = "Client"
        /\ last'.ident # last.ident
        /\ last'.identifier = last.identifier
        /\ last'.b # last.b
        /\ last'.tick > UnwrapOrDefaultTick(GroupTick(Current, last.identifier, last'.b)))
       => Holds(Current', last'.identifier, last'.b, last'.val, last'.tick)]_vars

\* C32 (amended): Authority is one component of the object, shared by its
\* groups: after a claim by client P was accepted through one group of a
\* Free object, an update of another client Q for that object is rejected
\* and changes nothing, whichever group it is for.
C32_ClaimCoversEveryGroup ==
    [][(/\ LastIsAcceptedClaim
        /\ last'.kind = "update"
        /\ last'.ident[1] = "Client"
        /\ last'.ident # last.ident
        /\ last'.identifier = last.identifier)
       => Current' = Current]_vars

\* The case is reached: client 2's update on group B was rejected right
\* after client 1's claim through group A of a Free object was accepted.
C32_OtherGroupRejected ==
    /\ LastIsUpdate /\ last.ident = IdentityClient(2) /\ last.b = "B"
    /\ AuthorityOf(last.before, last.identifier) = Some(AuthorityClient(1))
    /\ GroupTick(last.before, last.identifier, "A") # None
    /\ GroupTick(last.before, last.identifier, "B") = None
    /\ last.tick >= 1
    /\ Current = last.before

\* --------------------------------- C31: a rejected message inside a packet

\* The group messages among the messages of the packets processed, and what
\* each one carries.
GroupMessages == {m \in PacketMessages : /\ m[1] \in DOMAIN Unwrap(handlers)
                                         /\ Unwrap(handlers)[m[1]][1] = "bundle"}
MessageBundle(m) == Unwrap(handlers)[m[1]][2]
MessageIdentifier(m) == <<m[2], FromLeBytes(SubSeq(m, 3, 6))>>

\* Why apply_changes rejects the group message m of a packet with the given
\* tick sent by ident, in state st.
RejectedAsTombstoned(st, tick, m) ==
    LET got == MapGet(st.from_id, MessageIdentifier(m), tick) IN
    got.ok /\ got.status[1] = "Despawned"
RejectedAsStale(st, tick, m) ==
    /\ HasObject(st, MessageIdentifier(m))
    /\ IsStale(UnwrapOrDefaultTick(GroupTick(st, MessageIdentifier(m), MessageBundle(m))),
               tick)
RejectedAsUnauthorized(st, ident, tick, m) ==
    /\ HasObject(st, MessageIdentifier(m))
    /\ ~RejectedAsStale(st, tick, m)
    /\ ident[1] = "Client"
    /\ ~CanClaim(UnwrapOrDefaultAuthority(AuthorityOf(st, MessageIdentifier(m))), ident[2])

\* The last packet was a whole packet of the group message m1 followed by
\* the message m2.
LastIsPair(m1, m2) ==
    /\ LastIsProcess
    /\ Len(last.bytes) = 4 + Len(m1) + Len(m2)
    /\ last.bytes = SubSeq(last.bytes, 1, 4) \o m1 \o m2

\* The state the packet of last leaves is the state the same packet without
\* its first message leaves.
AsIfWithoutFirst(m2) ==
    Current = Process(Unwrap(handlers), last.before, last.ident,
                      SubSeq(last.bytes, 1, 4) \o m2, FALSE).st

\* C31 (as stated): when a group message inside a packet is rejected (stale
\* tick, sender without authority, or identifier tombstoned at or after the
\* packet tick), exactly its bytes are consumed and the following message of
\* the packet is parsed at the right offset and applied as if the rejected
\* message had not been there.
C31_RejectedIsConsumed ==
    \A m1 \in GroupMessages, m2 \in PacketMessages :
        (/\ LastIsPair(m1, m2)
         /\ \/ RejectedAsTombstoned(last.before, LastTick, m1)
            \/ RejectedAsStale(last.before, LastTick, m1)
            \/ RejectedAsUnauthorized(last.before, last.ident, LastTick, m1))
        => AsIfWithoutFirst(m2)

\* What holds of the code: a message rejected after its components were
\* read, here for a sender without authority, is consumed whole.
C31_UnauthorizedConsumed ==
    \A m1 \in GroupMessages, m2 \in PacketMessages :
        (/\ LastIsPair(m1, m2)
         /\ RejectedAsUnauthorized(last.before, last.ident, LastTick, m1))
        => AsIfWithoutFirst(m2)

\* The case is reached: the first message was rejected for a sender without
\* authority and the message behind it changed the state.
C31_UnauthorizedReached ==
    \E m1 \in GroupMessages, m2 \in PacketMessages :
        /\ LastIsPair(m1, m2)
        /\ RejectedAsUnauthorized(last.before, last.ident, LastTick, m1)
        /\ Current # last.before

\* ------------------------------ C34: the handle an identifier resolves to

\* The identifier the handler of the first message of the last packet read,
\* when the packet holds it whole.
LastHasFirstIdentifier ==
    /\ LastIsProcess
    /\ Len(last.bytes) >= 4 + DespawnMessageBytes
    /\ last.bytes[5] \in DOMAIN Unwrap(handlers)
LastFirstIdentifier == <<last.bytes[6], FromLeBytes(SubSeq(last.bytes, 7, 10))>>

\* C34 (as stated): whenever a handler resolves an identifier to
\* Alive(handle) during the receive phase, the handle refers to an object
\* that exists in the object store, also after an earlier received despawn
\* destroyed an object together with its dependents.
C34_ResolvedHandleExists ==
    LastHasFirstIdentifier =>
        LET got == MapGet(last.before.from_id, LastFirstIdentifier, LastTick) IN
        (got.ok /\ got.status[1] = "Alive") => got.status[2] \in DOMAIN last.before.world

\* ------------------------------------ C33: the two directions of the map
\* IdentifierMap called through its whole interface, with any arguments:
\* insert, reserve, despawn and remove_entity.

\* The record kept in last: the call, and whether every call so far was one
\* the engine's own bookkeeping makes (an identifier that is not Alive gets
\* a handle the map does not hold; despawn names the handle of its
\* identifier).
MapCall(kind, id, entity, regular) ==
    [kind |-> kind, id |-> id, entity |-> entity,
     regular |-> regular /\ (last.kind = "init" \/ last.regular)]

\* IdentifierMap::insert(id, entity)
CallInsert ==
    /\ \E id \in SendIdentifiers, entity \in Entities :
         /\ SetState(MapInsert(Current, id, entity))
         /\ last' = MapCall("insert", id, entity,
                            StatusKind(from_id[id]) # "Alive" /\ entity \notin DOMAIN to_id)
    /\ UNCHANGED <<regVars, our_ident, net_events, net, sendVars, bufVars>>

\* IdentifierMap::reserve(id, entities): insert with the handle
\* Entities::reserve_entity returns, which no entity has
CallReserve ==
    /\ \E id \in SendIdentifiers :
         /\ CanSpawn(Current)
         /\ SetState(MapReserve(Current, id))
         /\ last' = MapCall("reserve", id, NewEntity(Current),
                            StatusKind(from_id[id]) # "Alive")
    /\ UNCHANGED <<regVars, our_ident, net_events, net, sendVars, bufVars>>

\* IdentifierMap::despawn(id, entity, tick)
CallDespawn ==
    /\ \E id \in SendIdentifiers, entity \in Entities, t \in Ticks :
         /\ SetState(MapDespawn(Current, id, entity, t))
         /\ last' = MapCall("despawn", id, entity, from_id[id] = Alive(entity))
    /\ UNCHANGED <<regVars, our_ident, net_events, net, sendVars, bufVars>>

\* IdentifierMap::remove_entity(entity)
CallRemoveEntity ==
    /\ \E entity \in Entities :
         LET r == RemoveEntity(from_id, to_id, entity) IN
         /\ SetState(State(world, r.from_id, r.to_id, panicked))
         /\ last' = MapCall("remove_entity", <<0, 0>>, entity, TRUE)
    /\ UNCHANGED <<regVars, our_ident, net_events, net, sendVars, bufVars>>

MapCallsNext == CallInsert \/ CallReserve \/ CallDespawn \/ CallRemoveEntity

MapCallsSpec == LookupInit /\ [][MapCallsNext]_vars

\* The identifiers whose status is Alive.
AliveIdentifiers == {id \in DOMAIN from_id : StatusKind(from_id[id]) = "Alive"}

\* An identifier is Alive(h) if and only if h maps back to it.
DirectionsAgree ==
    /\ \A id \in DOMAIN from_id, h \in Entities :
          (from_id[id] = Alive(h)) <=> (h \in DOMAIN to_id /\ to_id[h] = id)
    /\ NAlive(Current) = Cardinality(AliveIdentifiers)

\* C33 (as stated): after any sequence of insert, reserve, despawn and
\* remove_entity calls the two directions of the map agree: an identifier
\* has status Alive(h) if and only if handle h maps back to it, so n_alive()
\* is the number of Alive identifiers and no handle maps to a tombstoned or
\* absent identifier.
C33_DirectionsAgree == DirectionsAgree

\* What holds of the code: the directions agree as long as every insert and
\* reserve was for an identifier that was not Alive, with a handle the map
\* did not hold, and every despawn named the handle of its identifier.
C33_RegularCallsAgree ==
    (last.kind # "init" /\ last.regular) => DirectionsAgree

\* The regular case is reached: after a despawn of an Alive identifier with
\* its handle, another identifier is still Alive and counted.
C33_RegularReached ==
    /\ last.kind = "despawn" /\ last.regular
    /\ StatusKind(from_id[last.id]) = "Despawned"
    /\ NAlive(Current) = 1

\* ------------------------------------- C36: what fragment() leaves pending

\* The number of times the body of "while len > THRESHOLD" runs on a taken
\* buffer, counted up to fuel; -1 when it would run more often.
RECURSIVE FragmentLoopRuns(_, _)
FragmentLoopRuns(tk, fuel) ==
    LET len == BufLen(tk.buffer) IN
    IF len <= THRESHOLD THEN 0
    ELSE IF fuel = 0 THEN -1
    ELSE LET end == FragmentEnd(len, tk.last_fragment)
             rest == FragmentLoopRuns([tk EXCEPT !.buffer = BufDrop(@, end),
                                                 !.last_fragment = 0], fuel - 1)
         IN  IF rest < 0 THEN -1 ELSE rest + 1

\* the runs counted before the loop is taken not to end
MaxLoopRuns == 8

\* C36: fragment() terminates for every buffer state (its loop runs at most
\* twice), when it returns every taken buffer holds at most THRESHOLD
\* pending bytes, and a packet drain later makes from a pooled buffer
\* carries at most THRESHOLD payload bytes.
C36_PendingWithinThreshold ==
    [][/\ (pending /\ ~pending' /\ taken # None /\ taken' # None) =>
            \A k \in DOMAIN Unwrap(taken).taken :
               /\ FragmentLoopRuns(Unwrap(taken).taken[k], MaxLoopRuns) \in 0..2
               /\ BufLen(Unwrap(taken').taken[k].buffer) <= THRESHOLD
       /\ (sent = None /\ sent' # None) =>
            \A p \in Unwrap(sent').current : BufLen(p.payload) <= THRESHOLD
      ]_vars

\* C36 witness: fragment() returned after its loop cut off packets, a
\* buffer was left with exactly THRESHOLD bytes by an earlier call, and
\* drain made a packet of THRESHOLD payload bytes from the pooled buffer.
C36_Witness ==
    /\ sent # None
    /\ \E p \in Unwrap(sent).current : BufLen(p.payload) = THRESHOLD
    /\ Unwrap(sent).filled # << >>

\* --------------------------------- C37: the bytes written and the bytes out
\* The buffers used on their own with small messages and framing overhead,
\* the messages accepted for each recipient kept as history in last.

\* <<overhead registered, bytes written>> of the messages written here.
ConserveShapes == {<<0, 5>>, <<7, 7>>, <<7, 600>>, <<0, 600>>}

ConserveRecipients == {IdentityClient(c) : c \in ClientIds}

\* The record kept in last: for each recipient the messages accepted for
\* it since the last drain, less those discarded as overhead-only; the
\* message written since the last fragment(); whether an overhead-only
\* discard met bytes of an earlier handle (last_fragment is 0 after take).
History(accepted, msg, across) ==
    [kind |-> "written", accepted |-> accepted, msg |-> msg, across |-> across]

ConserveInit ==
    /\ our_ident = IdentityServer
    /\ world = << >>
    /\ from_id = [id \in Identifiers |-> None]
    /\ to_id = << >>
    /\ panicked = FALSE
    /\ net_events = << >>
    /\ net = NoNetwork
    /\ last = History([d \in ConserveRecipients |-> << >>], None, FALSE)
    /\ SendIdle
    /\ BuffersIdle
    /\ RegIdle

\* The destinations a handle was taken for.
TakenFor(handle) == {handle.taken[k].destination : k \in DOMAIN handle.taken}

\* One message: overhead() and send() on the handle.
ConserveWrite ==
    /\ taken # None
    /\ ~pending
    /\ written < MaxMsgs
    /\ \E shape \in ConserveShapes, rule \in FragRules :
         LET part == Part(<<"msg", <<0, written + 1>>, "">>, shape[2]) IN
         /\ taken' = Some(Send(Overhead(Unwrap(taken), shape[1]), rule, <<part>>))
         /\ last' = History(
               [d \in ConserveRecipients |->
                  IF d \in TakenFor(Unwrap(taken)) /\ Includes(rule, d)
                    THEN Append(last.accepted[d], part)
                    ELSE last.accepted[d]],
               Some(part), last.across)
    /\ pending' = TRUE
    /\ written' = written + 1
    /\ UNCHANGED <<regVars, recvVars, sendVars, Tick, current, filled, sent>>

\* A sequence without the part, when it ends with it.
WithoutLast(parts, part) ==
    IF parts # << >> /\ parts[Len(parts)] = part
      THEN SubSeq(parts, 1, Len(parts) - 1)
      ELSE parts

\* TakenBuffers::fragment after the message.  A recipient whose buffer is
\* not longer than the overhead has the message discarded as overhead-only.
ConserveFragment ==
    /\ taken # None
    /\ pending
    /\ LET handle == Unwrap(taken)
           r == Fragment(handle, filled)
           discards == {k \in DOMAIN handle.taken :
                          BufLen(handle.taken[k].buffer) <= handle.overhead}
       IN
         /\ taken' = Some(r.handle)
         /\ filled' = r.filled
         /\ last' = History(
               [d \in ConserveRecipients |->
                  IF \E k \in discards : handle.taken[k].destination = d
                    THEN WithoutLast(last.accepted[d], Unwrap(last.msg))
                    ELSE last.accepted[d]],
               None,
               last.across \/ \E k \in discards :
                                 /\ handle.taken[k].last_fragment = 0
                                 /\ WithoutLast(handle.taken[k].buffer,
                                                Unwrap(last.msg)) # << >>)
    /\ pending' = FALSE
    /\ UNCHANGED <<regVars, recvVars, sendVars, Tick, current, written, sent>>

\* Buffers::drain, every packet consumed: the history starts again.
ConserveDrain ==
    /\ taken = None
    /\ sent = None
    /\ written > 0
    /\ LET r == Drain(current, filled, Tick) IN
         /\ current' = r.current
         /\ filled' = r.filled
    /\ written' = 0
    /\ last' = History([d \in ConserveRecipients |-> << >>], None, FALSE)
    /\ UNCHANGED <<regVars, recvVars, sendVars, Tick, taken, pending, sent>>

ConserveNext == FragTake \/ ConserveWrite \/ ConserveFragment \/ FragDrop \/ ConserveDrain

ConserveSpec == ConserveInit /\ [][ConserveNext]_vars

\* The payloads of the packets fragment() pushed for a recipient, in the
\* order they were pushed.
RECURSIVE EmittedOf(_, _)
EmittedOf(fill, key) ==
    IF fill = << >> THEN << >>
    ELSE (IF Head(fill).key = key THEN Head(fill).payload ELSE << >>)
         \o EmittedOf(Tail(fill), key)

\* The bytes pending for a recipient: in its taken buffer, or in the pool.
PendingOf(d) ==
    LET key == BufferKey(d, EntityChannel) IN
    IF taken # None /\ d \in TakenFor(Unwrap(taken))
      THEN LET k == CHOOSE k \in DOMAIN Unwrap(taken).taken :
                       Unwrap(taken).taken[k].destination = d
           IN  Unwrap(taken).taken[k].buffer
    ELSE IF key \in DOMAIN current THEN current[key]
    ELSE << >>

Conserved(d) ==
    EmittedOf(filled, BufferKey(d, EntityChannel)) \o PendingOf(d) = last.accepted[d]

\* C37 (as stated): for each recipient, over any sequence of take, overhead,
\* send and fragment calls with any message sizes and overhead values, the
\* payloads of the packets emitted in emission order followed by the bytes
\* still pending are the messages accepted for the recipient in write order
\* less the messages discarded as overhead-only.
C37_BytesConserved == \A d \in ConserveRecipients : Conserved(d)

\* What holds of the code: the bytes are conserved until an overhead-only
\* discard meets, in a buffer taken again, bytes an earlier handle left.
C37_ConservedWithinHandle ==
    ~last.across => \A d \in ConserveRecipients : Conserved(d)

\* The case is reached: of three messages written a recipient keeps two,
\* one in a packet fragment() emitted and one still pending, the third not
\* accepted for it or discarded as overhead-only.
C37_DiscardReached ==
    /\ ~last.across
    /\ last.msg = None
    /\ \E d \in ConserveRecipients :
          /\ Len(last.accepted[d]) = 2
          /\ PendingOf(d) # << >>
          /\ EmittedOf(filled, BufferKey(d, EntityChannel)) # << >>
          /\ written = 3

\* ----------------------------- C38: a late update after a local despawn
\* A frame of one process: packets are received, the application spawns and
\* despawns, and the send phase runs (send_despawns, track_authority,
\* send_buffers).  The objects here carry no groups of their own, so
\* iterate_world has nothing to write to the map or the store.

\* The identifiers whose removal send_despawns handles: the entities read
\* from RemovedComponents<Identifier> that the map still holds.
HandledRemovals ==
    {to_id[e] : e \in SeqRange(removed_identifier) \cap DOMAIN to_id}

\* The send phase of a frame, its systems in schedule order.
LateSendPhase ==
    /\ phase = "update"
    /\ LET m == SendDespawnsLoop(removed_identifier,
                                 [from_id |-> from_id, to_id |-> to_id,
                                  current |-> current, filled |-> filled],
                                 our_ident, held, connections, Tick)
           r == Drain(m.current, m.filled, Tick)
       IN  /\ from_id' = m.from_id
           /\ to_id' = m.to_id
           /\ current' = r.current
           /\ filled' = r.filled
           /\ last' = [kind |-> "send_phase", handled |-> HandledRemovals,
                       tick |-> Tick, packets |-> r.packets]
    /\ removed_identifier' = << >>
    /\ held' = TrackAuthorityHeld(our_ident, world, held, authority_changed,
                                  removed_authority)
    /\ authority_changed' = {}
    /\ removed_authority' = {}
    /\ tracked' = [e \in DOMAIN world |-> world[e].authority]
    /\ UNCHANGED <<regVars, our_ident, net_events, net, world, panicked, connections,
                   phase, change_tick, last_run, changed, cycles, Tick, taken,
                   pending, written, sent>>

\* The receive phase of the frame after a send phase: a packet of one group
\* message arrives, before the application acts again.  A behaviour ends
\* with the packet.
LateReceive ==
    /\ last.kind = "send_phase"
    /\ ReceiveUpdate

LateNext ==
    \/ /\ last.kind # "update"
       /\ \/ AppSpawn({NoValues}, {None, Some(AuthorityFree)})
          \/ AppDespawn
          \/ LateSendPhase
          \/ FragIncrementTick
    \/ LateReceive

LateSpec == DespawnInit /\ [][LateNext]_vars

\* The update in the step follows the send phase that handled the removal
\* of its identifier, and its tick is below the tick of that send phase.
LateUpdateStep ==
    /\ last.kind = "send_phase"
    /\ last'.kind = "update"
    /\ last'.identifier \in last.handled
    /\ last'.tick < last.tick

\* C38 (as stated): after a process destroyed an identified object locally
\* and its send phase handled the removal at tick t, an update for the
\* identifier with a tick below t received afterwards does not recreate the
\* object on that process.
C38_NotRecreated ==
    [][LateUpdateStep => ~HasObject(Current', last'.identifier)]_vars

\* What holds of the code: on the server, which receives from clients only,
\* the late update creates nothing.
C38_ServerNotRecreated ==
    [][(LateUpdateStep /\ our_ident = IdentityServer)
          => ~HasObject(Current', last'.identifier)]_vars

\* ------------------------------- C39: a received despawn and the other peers
\* The server with its clients connected: the application spawns objects any
\* client may claim, despawn packets of clients arrive, and the send phase
\* runs every frame.

\* The entities of a set as a sequence, lowest handle first.
RECURSIVE SeqOfEntities(_)
SeqOfEntities(es) ==
    IF es = {} THEN << >>
    ELSE LET first == CHOOSE e \in es : \A o \in es : e <= o
         IN  <<first>> \o SeqOfEntities(es \ {first})

\* Handlers::process on a packet holding one despawn message.  The entities
\* DespawnRecursive destroys lose their components, which the engine records
\* in RemovedComponents<Identifier> and RemovedComponents<Authority>.
RelayReceive ==
    /\ ~panicked
    /\ \E ident \in Senders, t \in Ticks, identifier \in Identifiers :
         LET st == HandleDespawns(Current, ident, t, identifier)
             gone == (DOMAIN world) \ (DOMAIN st.world)
         IN
         /\ SetState(st)
         /\ removed_identifier' = removed_identifier \o SeqOfEntities(gone)
         /\ removed_authority' =
               removed_authority \cup {e \in gone : world[e].authority # None}
         /\ authority_changed' = authority_changed \ gone
         /\ changed' = [e \in (DOMAIN changed) \ gone |-> changed[e]]
         /\ last' = Op("despawn", ident, t, identifier, "", 0, Current)
    /\ UNCHANGED <<regVars, our_ident, net_events, net, held, tracked, connections,
                   phase, change_tick, last_run, cycles, bufVars>>

RelayInit ==
    /\ DespawnInit
    /\ our_ident = IdentityServer
    /\ connections # << >>

RelayNext ==
    \/ AppSpawn({NoValues}, {Some(AuthorityFree)})
    \/ RelayReceive
    \/ LateSendPhase
    \/ FragIncrementTick

\* The send phase is in the schedule of every frame.
RelaySpec == RelayInit /\ [][RelayNext]_vars /\ WF_vars(LateSendPhase)

\* The server applied the despawn of client p for the identifier: the
\* object is gone and the identifier is tombstoned.
AppliedDespawnOf(p, identifier) ==
    /\ LastIsDespawn
    /\ last.ident = IdentityClient(p)
    /\ last.identifier = identifier
    /\ HasObject(last.before, identifier)
    /\ StatusKind(from_id[identifier]) = "Despawned"

\* A send phase handed a despawn message for the identifier to every
\* connected client other than p.
RelayedToOthers(p, identifier) ==
    /\ last.kind = "send_phase"
    /\ \A dest \in (DOMAIN connections) \ {IdentityClient(p)} :
          \E pk \in last.packets.current \cup SeqRange(last.packets.filled) :
             /\ pk.key = BufferKey(dest, DespawnChannel)
             /\ \E j \in DOMAIN pk.payload :
                   pk.payload[j].tag = <<"despawn", identifier, "">>

\* C39 (as stated): when the server applies a despawn message received from
\* a client, every other connected client is eventually sent a despawn
\* message for that identifier in a later send phase.
C39_DespawnRelayed ==
    \A p \in ClientIds, identifier \in Identifiers :
        AppliedDespawnOf(p, identifier) ~> RelayedToOthers(p, identifier)

\* What the code does instead: no send phase hands a despawn message to
\* anyone, since the server's application despawns nothing here and
\* send_despawns skips the entities a received despawn destroyed.
C39_NothingRelayed ==
    last.kind = "send_phase" =>
        /\ last.handled = {}
        /\ last.packets.current = {}
        /\ last.packets.filled = << >>

\* The case is reached: a send phase ran on the removal a received despawn
\* left behind, with both clients connected, and handed out nothing.
C39_SendPhaseReached ==
    /\ last.kind = "send_phase"
    /\ \E id \in Identifiers : StatusKind(from_id[id]) = "Despawned"
    /\ Cardinality(DOMAIN connections) = 2
    /\ last.packets.current = {}

==============================================================================
